---- MODULE Spec2Model ----
(***************************************************************************)
(* Line-of-therapy engine of lot_definition.py: the patient driver         *)
(* (define_treatment_lines_oncology), the same-day tie-break sorter        *)
(* (custom_sort_same_date), the line state machine (calculate_patient_lot  *)
(* with process_subsequent_administrations), the regimen classifier        *)
(* (identify_standard_regimen), the maintenance detector                   *)
(* (is_maintenance_therapy) and the summary builder (create_lot_summary).  *)
(*                                                                         *)
(* Dates are day numbers (a pandas Timestamp without a time component);    *)
(* None is the empty sequence and a present date d is <<d>>.  A Python     *)
(* set is the sequence of its members in iteration order.  A configuration *)
(* that lacks a key is the complete configuration together with the name   *)
(* of the lacking key: reading that key raises KeyError, and everything    *)
(* computed before that read used only keys that are present.              *)
(***************************************************************************)
EXTENDS Integers, Sequences, FiniteSets, TLC

VARIABLES
    pc,                      \* position of the driver: "idle", "lot", "next", "done", "error"
    universe,                \* the administration events an input table is drawn from
    hashseed,                \* the process's string-hash seed (PYTHONHASHSEED)
    config_missing,          \* the key the configuration lacks, "none" if it is complete
    rest,                    \* the rows of df of the patients the loop has not reached
    result,                  \* what define_treatment_lines_oncology returned, None before
    patient_df,              \* the patient's table: input columns and output columns
    idx,                     \* index of the next row of the loop of calculate_patient_lot
    line_counter,
    current_regimen_drugs,
    last_admin_date,
    last_line_start_date,
    current_window_end,
    in_initial_window,
    biologic_targeted_drugs,
    detailed_output,         \* the driver's table of annotated events
    summary_output           \* the driver's table of line summaries

vars == <<pc, universe, hashseed, config_missing, rest, result, patient_df, idx,
          line_counter, current_regimen_drugs, last_admin_date, last_line_start_date,
          current_window_end, in_initial_window, biologic_targeted_drugs,
          detailed_output, summary_output>>

----------------------------------------------------------------------------
(* Bounds of the model. *)

\* Largest number of administration events of the patient.
MaxEvents == 4

----------------------------------------------------------------------------
(* Python values. *)

None == << >>
Some(d) == <<d>>
Range(s) == {s[i] : i \in 1..Len(s)}

\* The drug names of the model in the order of Python's string comparison
\* (code points: digits, then upper case, then lower case).
DrugNames ==
    <<"5-fluorouracil", "Oxaliplatin", "aflibercept", "bevacizumab", "capecitabine",
      "cetuximab", "cisplatin", "encorafenib", "irinotecan", "leucovorin", "lonsurf",
      "oxaliplatin",
      "panitumumab", "pembrolizumab", "ramucirumab", "regorafenib", "tipiracil",
      "trifluridine">>

NameIndexOf ==
    [d \in Range(DrugNames) |-> CHOOSE i \in 1..Len(DrugNames) : DrugNames[i] = d]

NameIndex(d) == NameIndexOf[d]

\* sorted(S) for a collection S of drug names.
Sorted(S) == SelectSeq(DrugNames, LAMBDA d : d \in S)

\* str.lower
Lower(d) == IF d = "Oxaliplatin" THEN "oxaliplatin" ELSE d

\* str.capitalize: first character upper case, the rest lower case.
Capitalize(d) ==
    CASE d = "5-fluorouracil" -> "5-fluorouracil"
      [] d = "Oxaliplatin"    -> "Oxaliplatin"
      [] d = "aflibercept"    -> "Aflibercept"
      [] d = "bevacizumab"    -> "Bevacizumab"
      [] d = "capecitabine"   -> "Capecitabine"
      [] d = "cetuximab"      -> "Cetuximab"
      [] d = "cisplatin"      -> "Cisplatin"
      [] d = "encorafenib"    -> "Encorafenib"
      [] d = "irinotecan"     -> "Irinotecan"
      [] d = "leucovorin"     -> "Leucovorin"
      [] d = "lonsurf"        -> "Lonsurf"
      [] d = "oxaliplatin"    -> "Oxaliplatin"
      [] d = "panitumumab"    -> "Panitumumab"
      [] d = "pembrolizumab"  -> "Pembrolizumab"
      [] d = "ramucirumab"    -> "Ramucirumab"
      [] d = "regorafenib"    -> "Regorafenib"
      [] d = "tipiracil"      -> "Tipiracil"
      [] d = "trifluridine"   -> "Trifluridine"

\* sep.join(seq)
RECURSIVE Join(_, _)
Join(sep, seq) ==
    IF seq = << >> THEN ""
    ELSE IF Len(seq) = 1 THEN seq[1]
    ELSE seq[1] \o sep \o Join(sep, Tail(seq))

MapSeq(f(_), seq) == [i \in 1..Len(seq) |-> f(seq[i])]

(* A Python set of strings iterates in the order of its hash table.  The   *)
(* slot of a string depends on the process's hash seed; two members with   *)
(* the same slot collide and the one added later takes a later free slot.  *)
(* Seed "spread": every name has a slot of its own.  Seed "collide": all   *)
(* names share one slot, so the set iterates in insertion order.           *)
HashSeeds == {"spread", "collide"}

Slot(seed, d) == IF seed = "spread" THEN NameIndex(d) ELSE 0

\* s.add(x) for the Python set s.
PySetAdd(seed, s, x) ==
    IF x \in Range(s) THEN s
    ELSE LET before == SelectSeq(s, LAMBDA y : Slot(seed, y) <= Slot(seed, x))
             after  == SelectSeq(s, LAMBDA y : Slot(seed, y) > Slot(seed, x))
         IN  before \o <<x>> \o after

\* set(iterable): the members are added one by one.
RECURSIVE PySetFrom(_, _)
PySetFrom(seed, seq) ==
    IF seq = << >> THEN << >>
    ELSE PySetAdd(seed, PySetFrom(seed, SubSeq(seq, 1, Len(seq) - 1)), seq[Len(seq)])

----------------------------------------------------------------------------
(* Configuration (data/config.yaml, read by lot_main.py). *)

gap_period_options == [gap_treatment_restart |-> 180]
new_biologic_agent_options == [after_initial_period |-> 60, bio_dis1_period |-> 90]
new_chemo_agent_options == [flu_dis_period |-> 45]

\* drug_interchangeability_rules; a maintenance option "a+b" is given by
\* its parts <<"a", "b">>, which is what maintenance.split('+') returns.
drug_interchangeability ==
    [CRC |->
        [fluoropyrimidines |-> <<"5-fluorouracil", "capecitabine">>,
         anti_vegf         |-> <<"bevacizumab", "aflibercept", "ramucirumab">>,
         anti_egfr         |-> <<"cetuximab", "panitumumab">>,
         other_targeted    |-> <<"regorafenib", "encorafenib">>,
         chemotherapy      |-> [platinum      |-> <<"oxaliplatin", "cisplatin">>,
                                topoisomerase |-> <<"irinotecan">>],
         sequence_rules    |-> [maintenance_options |->
                                   << <<"capecitabine">>,
                                      <<"5-fluorouracil", "leucovorin">>,
                                      <<"5-fluorouracil", "bevacizumab">>,
                                      <<"capecitabine", "bevacizumab">> >>]]]

----------------------------------------------------------------------------
(* Regimen classifier. *)

\* admin_counts.get(drug, 0)
CountGet(admin_counts, drug) ==
    IF drug \in DOMAIN admin_counts THEN admin_counts[drug] ELSE 0

\* sum(admin_counts.get(drug, 0) for drug in S)
RECURSIVE SumCounts(_, _)
SumCounts(admin_counts, S) ==
    IF S = {} THEN 0
    ELSE LET d == CHOOSE e \in S : TRUE
         IN  CountGet(admin_counts, d) + SumCounts(admin_counts, S \ {d})

\* The capecitabine-based names of identify_standard_regimen.
CapecitabineRegimen(has_oxaliplatin, has_irinotecan) ==
    IF has_oxaliplatin /\ has_irinotecan THEN "CAPOXIRI"
    ELSE IF has_oxaliplatin THEN "CAPOX"
    ELSE IF has_irinotecan THEN "CAPIRI"
    ELSE "Capecitabine"

\* The 5-FU-based names with leucovorin tested before the partners.
FluorouracilRegimenLeucovorinFirst(has_oxaliplatin, has_irinotecan, has_leucovorin) ==
    IF has_leucovorin THEN "5-FU/LV"
    ELSE IF has_oxaliplatin /\ has_irinotecan THEN "FOLFOXIRI"
    ELSE IF has_oxaliplatin THEN "FOLFOX"
    ELSE IF has_irinotecan THEN "FOLFIRI"
    ELSE "5-FU"

\* The 5-FU-based names of identify_standard_regimen.
FluorouracilRegimen(has_oxaliplatin, has_irinotecan, has_leucovorin) ==
    IF (has_oxaliplatin /\ has_irinotecan /\ has_leucovorin)
          \/ (has_oxaliplatin /\ has_irinotecan) THEN "FOLFOXIRI"
    ELSE IF (has_oxaliplatin /\ has_leucovorin) \/ has_oxaliplatin THEN "FOLFOX"
    ELSE IF (has_irinotecan /\ has_leucovorin) \/ has_irinotecan THEN "FOLFIRI"
    ELSE IF has_leucovorin THEN "5-FU/LV"
    ELSE "5-FU"

\* No label when no standard regimen is identified ("" stands for None).
UnidentifiedRegimenNone(drug_set) == ""

\* The label when no standard regimen is identified: the capitalized names
\* of the set in its iteration order.
UnidentifiedRegimen(drug_set) ==
    IF Len(drug_set) = 1 THEN Capitalize(drug_set[1])
    ELSE Join(" + ", MapSeq(Capitalize, drug_set))

\* use_fu_naming with a tie of the counts going to capecitabine.
UseFuNamingUnlessTie(counted, fu_count, cape_count) == ~(counted /\ fu_count <= cape_count)

\* use_fu_naming: True unless both fluoropyrimidines are in the set, counts
\* are given and the 5-FU count is lower than the capecitabine count.
UseFuNaming(counted, fu_count, cape_count) == ~(counted /\ fu_count < cape_count)

\* controller left at its initial value False.
ControllerNever(counted) == FALSE

\* controller: True when the counts were not compared.
Controller(counted) == ~counted

\* identify_standard_regimen(drugs, drug_interchangeability, admin_counts);
\* drugs is a Python set, admin_counts a dict (None and {} are the empty
\* function: both are false in "and admin_counts"), seed the hash seed of
\* the process, which fixes the iteration order of the sets it builds.
identify_standard_regimen(drugs, di, admin_counts, seed) ==
    LET drug_set   == PySetFrom(seed, MapSeq(Lower, drugs))
        members    == Range(drug_set)
        fluoropyrimidines == {"fluorouracil", "5-fluorouracil", "5-fu", "fu",
                              "capecitabine", "xeloda"}
        leucovorin == {"leucovorin", "folinic acid", "lv", "calcium folinate"}
        lonsurf_components == {"trifluridine", "tipiracil"}
        fu_drugs   == {"fluorouracil", "5-fluorouracil", "5-fu", "fu"}
        cape_drugs == {"capecitabine", "xeloda"}
        has_fu     == \E drug \in fu_drugs : drug \in members
        has_cape   == \E drug \in cape_drugs : drug \in members
        counted    == has_fu /\ has_cape /\ admin_counts # << >>
        fu_count   == SumCounts(admin_counts, fu_drugs)
        cape_count == SumCounts(admin_counts, cape_drugs)
        use_fu_naming == UseFuNaming(counted, fu_count, cape_count)
        controller == Controller(counted)
        anti_vegf  == PySetFrom(seed, di.CRC.anti_vegf)
        anti_egfr  == PySetFrom(seed, di.CRC.anti_egfr)
        other_targeted == PySetFrom(seed, di.CRC.other_targeted)
        has_fluoropyrimidine == \E drug \in fluoropyrimidines : drug \in members
        has_leucovorin  == \E drug \in leucovorin : drug \in members
        has_oxaliplatin == "oxaliplatin" \in members
        has_irinotecan  == "irinotecan" \in members
        has_lonsurf == lonsurf_components \subseteq members \/ "lonsurf" \in members
        has_anti_vegf == \E drug \in Range(anti_vegf) : drug \in members
        has_anti_egfr == \E drug \in Range(anti_egfr) : drug \in members
        has_other_targeted == \E drug \in Range(other_targeted) : drug \in members
        has_5fu == \E drug \in {"fluorouracil", "5-fluorouracil", "5-fu", "fu"} : drug \in members
        present(s) == SelectSeq(s, LAMBDA drug : drug \in members)
        cape_naming ==
            \/ ((~use_fu_naming /\ "capecitabine" \in members) \/ "xeloda" \in members)
            \/ ((controller /\ "capecitabine" \in members) \/ "xeloda" \in members)
        \* None is "": both are false in "if base_regimen", and no branch
        \* yields an empty string.
        base_regimen ==
            IF has_lonsurf THEN "LONSURF"
            ELSE IF has_other_targeted
                 THEN Join(" + ", MapSeq(Capitalize, present(other_targeted)))
            ELSE IF has_fluoropyrimidine THEN
                IF cape_naming
                THEN CapecitabineRegimen(has_oxaliplatin, has_irinotecan)
                ELSE IF has_5fu /\ use_fu_naming
                THEN FluorouracilRegimen(has_oxaliplatin, has_irinotecan, has_leucovorin)
                ELSE ""
            ELSE ""
        targeted_components ==
            (IF has_anti_vegf THEN present(anti_vegf) ELSE << >>)
            \o (IF has_anti_egfr THEN present(anti_egfr) ELSE << >>)
            \o (IF has_other_targeted THEN present(other_targeted) ELSE << >>)
        single == drug_set[1]
    IN  IF base_regimen # "" /\ ~has_other_targeted THEN
            IF targeted_components # << >>
            THEN base_regimen \o " + " \o Join(" + ", targeted_components)
            ELSE base_regimen
        ELSE IF Len(drug_set) = 1
                /\ (single \in Range(anti_vegf) \/ single \in Range(anti_egfr)
                    \/ single \in Range(other_targeted))
            THEN Capitalize(single)
        ELSE IF targeted_components # << >>
            THEN Join(" + ", MapSeq(Capitalize, targeted_components))
        ELSE UnidentifiedRegimen(drug_set)

----------------------------------------------------------------------------
(* Maintenance detector. *)

\* The loop with a test for equality in place of issubset.
RECURSIVE MaintenanceFromExact(_, _, _)
MaintenanceFromExact(drug_set, options, i) ==
    IF i > Len(options) THEN FALSE
    ELSE IF Range(options[i]) = drug_set THEN TRUE
    ELSE MaintenanceFromExact(drug_set, options, i + 1)

\* The loop of is_maintenance_therapy over options[i..], with its early return.
RECURSIVE MaintenanceFrom(_, _, _)
MaintenanceFrom(drug_set, options, i) ==
    IF i > Len(options) THEN FALSE
    ELSE IF Range(options[i]) \subseteq drug_set THEN TRUE
    ELSE MaintenanceFrom(drug_set, options, i + 1)

is_maintenance_therapy(drugs, di) ==
    MaintenanceFrom(Range(drugs), di.CRC.sequence_rules.maintenance_options, 1)

----------------------------------------------------------------------------
(* Line state machine. *)

\* The validator with the restriction its source keeps in a comment: a drug
\* of the chemotherapy lists is refused unless the regimen, leucovorin left
\* out, holds fluoropyrimidines only.
can_add_to_fluoropyrimidine_only(current_drugs, new_drug, di) ==
    LET chemo_drugs == Range(di.CRC.chemotherapy.platinum)
                       \cup Range(di.CRC.chemotherapy.topoisomerase)
    IN  new_drug \in chemo_drugs =>
            \A drug \in current_drugs \ {"leucovorin"} :
                drug \in Range(di.CRC.fluoropyrimidines)

\* can_add_new_chemotherapy(current_drugs, new_drug, drug_interchangeability)
can_add_new_chemotherapy(current_drugs, new_drug, di) ==
    LET chemo_drugs == Range(di.CRC.chemotherapy.platinum)
                       \cup Range(di.CRC.chemotherapy.topoisomerase)
    IN  IF new_drug \notin chemo_drugs THEN TRUE ELSE TRUE

\* The flu_dis_period test with >= in place of >.
PastFluDisPeriodOrOn(days_since_line_start, chemo_options) ==
    days_since_line_start >= chemo_options.flu_dis_period

\* days_since_line_start > new_chemo_agent_options['flu_dis_period']
PastFluDisPeriod(days_since_line_start, chemo_options) ==
    days_since_line_start > chemo_options.flu_dis_period

\* The backbone test without the platinum-plus-irinotecan case.
IsSingleAgentBackbone(non_supportive, has_platinum, has_irinotecan) ==
    Cardinality(non_supportive) = 1 /\ (has_platinum \/ has_irinotecan)

\* is_single_platinum or is_single_irinotecan or is_platinum_irinotecan.
IsBackbone(non_supportive, has_platinum, has_irinotecan) ==
    \/ (Cardinality(non_supportive) = 1 /\ has_platinum)
    \/ (Cardinality(non_supportive) = 1 /\ has_irinotecan)
    \/ (Cardinality(non_supportive) = 2 /\ has_platinum /\ has_irinotecan)

\* The lookahead with the current date included.
InLookaheadFromToday(date, admin_date) == date >= admin_date /\ date <= admin_date + 28

\* The dates the lookahead of the fluoropyrimidine-switch rule covers: after
\* admin_date, up to future_window = admin_date + 28 days.
InLookahead(date, admin_date) == date > admin_date /\ date <= admin_date + 28

\* The switch kept also when a single chemotherapy drug lies ahead.
KeptAsSwitchOneAhead(current_chemo, future_chemo) ==
    current_chemo \cap future_chemo # {} \/ Cardinality(future_chemo) <= 1

\* current_chemo.intersection(future_chemo) or not future_chemo
KeptAsSwitch(current_chemo, future_chemo) ==
    current_chemo \cap future_chemo # {} \/ future_chemo = {}

\* The rule for a new chemotherapy agent (the branch of
\* process_subsequent_administrations for drug_category == 'chemotherapy').
NewChemotherapyRule(drug_name, admin_date, days_since_line_start, regimen, di, chemo_options, initial_window, df) ==
    LET flu_agents == Range(di.CRC.fluoropyrimidines)
        platinum_agents == Range(di.CRC.chemotherapy.platinum)
        topoisomerase_agents == Range(di.CRC.chemotherapy.topoisomerase)
        lower_flu == {Lower(a) : a \in flu_agents}
        current_flu == \E drug \in regimen : Lower(drug) \in lower_flu
        new_drug_is_flu == Lower(drug_name) \in lower_flu
        is_flu_switch == current_flu /\ new_drug_is_flu
        current_platinum ==
            \E drug \in regimen : Lower(drug) \in {Lower(a) : a \in platinum_agents}
        current_irinotecan ==
            \E drug \in regimen : Lower(drug) \in {Lower(a) : a \in topoisomerase_agents}
        non_supportive_drugs == {drug \in regimen : Lower(drug) # "leucovorin"}
        current_chemo ==
            {drug \in regimen :
                \/ drug \in platinum_agents \cup topoisomerase_agents
                \/ (drug \in flu_agents /\ drug # "leucovorin")}
        future_chemo ==
            {df[i].drugname : i \in
                {j \in 1..Len(df) : /\ InLookahead(df[j].administratedate, admin_date)
                                    /\ df[j].drugcategory = "chemotherapy"}}
    IN  IF is_flu_switch THEN
            IF KeptAsSwitch(current_chemo, future_chemo)
            THEN [new_line_needed |-> FALSE, regimen_status |-> "Fluoropyrimidine Switch"]
            ELSE [new_line_needed |-> TRUE,
                  regimen_status |-> "New Line (Fluoropyrimidine Replacement)"]
        ELSE IF initial_window
            THEN [new_line_needed |-> FALSE,
                  regimen_status |-> "New Chemo Addition (Initial Window)"]
        ELSE IF ~can_add_new_chemotherapy(regimen, drug_name, di)
            THEN [new_line_needed |-> TRUE,
                  regimen_status |-> "New Line (Invalid Chemo Addition)"]
        ELSE IF IsBackbone(non_supportive_drugs, current_platinum, current_irinotecan)
                /\ new_drug_is_flu
            THEN [new_line_needed |-> FALSE,
                  regimen_status |-> "New Chemo Addition (Fluoropyrimidine to Backbone)"]
        ELSE IF new_drug_is_flu /\ PastFluDisPeriod(days_since_line_start, chemo_options)
            THEN [new_line_needed |-> TRUE, regimen_status |-> "New Line (New Chemo Addition)"]
        ELSE IF PastFluDisPeriod(days_since_line_start, chemo_options)
            THEN [new_line_needed |-> TRUE, regimen_status |-> "New Line (New Chemo Addition)"]
        ELSE [new_line_needed |-> FALSE,
              regimen_status |-> "New Chemo Addition (Within Window)"]

\* The biologic rule without its initial-window branch.
NewBiologicRuleNoWindow(drug_name, days_since_line_start, bt, di, bio_options, initial_window) ==
    IF Cardinality(bt) > 2
        THEN [new_line_needed |-> TRUE,
              regimen_status |-> "New Line (Third Biologic/Targeted Agent Added)"]
    ELSE IF drug_name \in Range(di.CRC.anti_vegf) THEN
        IF days_since_line_start > bio_options.after_initial_period
        THEN [new_line_needed |-> TRUE, regimen_status |-> "New Line (Anti-VEGF Addition)"]
        ELSE [new_line_needed |-> FALSE,
              regimen_status |-> "Anti-VEGF Addition (Within Window)"]
    ELSE IF drug_name \in Range(di.CRC.anti_egfr) THEN
        IF days_since_line_start > bio_options.bio_dis1_period
        THEN [new_line_needed |-> TRUE, regimen_status |-> "New Line (EGFR Addition/Switch)"]
        ELSE [new_line_needed |-> FALSE, regimen_status |-> "EGFR Addition (Within Window)"]
    ELSE IF drug_name \in Range(di.CRC.other_targeted) THEN
        IF days_since_line_start > bio_options.bio_dis1_period
        THEN [new_line_needed |-> TRUE,
              regimen_status |-> "New Line (Other Targeted Addition)"]
        ELSE [new_line_needed |-> FALSE,
              regimen_status |-> "Other Targeted Addition (Within Window)"]
    ELSE [new_line_needed |-> FALSE, regimen_status |-> ""]

\* The threshold test with >= in place of >.
ExceedsOrReaches(days, period) == days >= period

\* The threshold test of the subclass branches: days_since_line_start > period.
Exceeds(days, period) == days > period

\* The third-agent test that lets a third agent in.
ThirdAgentLate(bt) == Cardinality(bt) > 3

\* The third-agent test: len(biologic_targeted_drugs) > 2.
ThirdAgent(bt) == Cardinality(bt) > 2

\* The rule for a biologic or targeted agent that is new to the line (the
\* branch for drug_category in ('biologics', 'targeted')); bt is
\* biologic_targeted_drugs after the add of line 141.
NewBiologicRule(drug_name, days_since_line_start, bt, di, bio_options, initial_window) ==
    IF initial_window
        THEN [new_line_needed |-> FALSE,
              regimen_status |-> "New Biologic Addition (Initial Window)"]
    ELSE IF ThirdAgent(bt)
        THEN [new_line_needed |-> TRUE,
              regimen_status |-> "New Line (Third Biologic/Targeted Agent Added)"]
    ELSE IF drug_name \in Range(di.CRC.anti_vegf) THEN
        IF Exceeds(days_since_line_start, bio_options.after_initial_period)
        THEN [new_line_needed |-> TRUE, regimen_status |-> "New Line (Anti-VEGF Addition)"]
        ELSE [new_line_needed |-> FALSE,
              regimen_status |-> "Anti-VEGF Addition (Within Window)"]
    ELSE IF drug_name \in Range(di.CRC.anti_egfr) THEN
        IF Exceeds(days_since_line_start, bio_options.bio_dis1_period)
        THEN [new_line_needed |-> TRUE, regimen_status |-> "New Line (EGFR Addition/Switch)"]
        ELSE [new_line_needed |-> FALSE, regimen_status |-> "EGFR Addition (Within Window)"]
    ELSE IF drug_name \in Range(di.CRC.other_targeted) THEN
        IF Exceeds(days_since_line_start, bio_options.bio_dis1_period)
        THEN [new_line_needed |-> TRUE,
              regimen_status |-> "New Line (Other Targeted Addition)"]
        ELSE [new_line_needed |-> FALSE,
              regimen_status |-> "Other Targeted Addition (Within Window)"]
    ELSE [new_line_needed |-> FALSE, regimen_status |-> ""]

\* The treatment-gap test with >= in place of >.
TreatmentGapInclusive(days_since_last_admin, gap_options) ==
    days_since_last_admin >= gap_options.gap_treatment_restart

\* The treatment-gap test of process_subsequent_administrations.
TreatmentGap(days_since_last_admin, gap_options) ==
    days_since_last_admin > gap_options.gap_treatment_restart

\* The continuation test with == in place of in.
InCurrentRegimenAlone(drug_name, regimen) == regimen = {drug_name}

\* Its continuation test: drug_name in current_regimen_drugs.
InCurrentRegimen(drug_name, regimen) == drug_name \in regimen

\* The same-date test left out.
SameDayNever(admin_date, last_admin) == FALSE

\* The same-date test: last_admin_date and admin_date == last_admin_date.
SameDay(admin_date, last_admin) == last_admin # None /\ admin_date = last_admin[1]

\* process_subsequent_administrations: the pair it returns, and
\* biologic_targeted_drugs (the caller's set, which it changes in place).
process_subsequent_administrations(row, regimen_drugs, last_admin, line_start, bt, di, bio_options, chemo_options, gap_options, initial_window, df) ==
    LET drug_name == row.drugname
        admin_date == row.administratedate
        drug_category == row.drugcategory
        regimen == Range(regimen_drugs)
        days_since_line_start == admin_date - line_start
        days_since_last_admin == IF last_admin # None THEN admin_date - last_admin[1] ELSE 0
        keep(r) == [new_line_needed |-> r.new_line_needed,
                    regimen_status |-> r.regimen_status,
                    biologic_targeted_drugs |-> bt]
    IN  IF SameDay(admin_date, last_admin)
            THEN keep([new_line_needed |-> FALSE, regimen_status |-> "Same Day Administration"])
        ELSE IF TreatmentGap(days_since_last_admin, gap_options)
            THEN keep([new_line_needed |-> TRUE, regimen_status |-> "New Line (Gap)"])
        ELSE IF InCurrentRegimen(drug_name, regimen)
            THEN keep([new_line_needed |-> FALSE, regimen_status |-> "Continuation"])
        ELSE IF drug_category \in {"biologics", "targeted"} THEN
            IF drug_name \notin bt
            THEN LET added == bt \cup {drug_name}
                     r == NewBiologicRule(drug_name, days_since_line_start, added, di,
                                          bio_options, initial_window)
                 IN  [new_line_needed |-> r.new_line_needed,
                      regimen_status |-> r.regimen_status,
                      biologic_targeted_drugs |-> added]
            ELSE keep([new_line_needed |-> FALSE, regimen_status |-> ""])
        ELSE IF drug_category = "chemotherapy"
            THEN keep(NewChemotherapyRule(drug_name, admin_date, days_since_line_start,
                                          regimen, di, chemo_options, initial_window, df))
        ELSE keep([new_line_needed |-> FALSE, regimen_status |-> ""])

\* The statuses of the branch for a chemotherapy drug that is not in the
\* regimen.
NewChemotherapyStatuses ==
    {"Fluoropyrimidine Switch", "New Line (Fluoropyrimidine Replacement)",
     "New Chemo Addition (Initial Window)", "New Line (Invalid Chemo Addition)",
     "New Chemo Addition (Fluoropyrimidine to Backbone)",
     "New Line (New Chemo Addition)", "New Chemo Addition (Within Window)"}

\* The configuration keys process_subsequent_administrations subscripts on
\* its way to regimen_status.  Every status but '' is set in one branch, and
\* a branch reads what its tests compare with: the gap threshold whenever
\* the row is not a same-day row, a threshold of the biologic rule in the
\* subclass branch that compares with it, the fluoropyrimidine and
\* chemotherapy lists at the head of the chemotherapy branch and
\* flu_dis_period in its last three tests.
ProcessSubsequentKeys(regimen_status) ==
    IF regimen_status = "Same Day Administration" THEN {}
    ELSE {"gap_treatment_restart"}
         \cup (IF regimen_status \in {"New Line (Anti-VEGF Addition)",
                                     "Anti-VEGF Addition (Within Window)"}
               THEN {"after_initial_period"} ELSE {})
         \cup (IF regimen_status \in {"New Line (EGFR Addition/Switch)",
                                     "EGFR Addition (Within Window)",
                                     "New Line (Other Targeted Addition)",
                                     "Other Targeted Addition (Within Window)"}
               THEN {"bio_dis1_period"} ELSE {})
         \cup (IF regimen_status \in NewChemotherapyStatuses
               THEN {"fluoropyrimidines", "chemotherapy"} ELSE {})
         \cup (IF regimen_status \in {"New Line (New Chemo Addition)",
                                     "New Chemo Addition (Within Window)"}
               THEN {"flu_dis_period"} ELSE {})

\* The configuration keys identify_standard_regimen and
\* is_maintenance_therapy subscript, whatever the drugs are.
CommonFieldKeys == {"anti_vegf", "anti_egfr", "other_targeted", "sequence_rules"}

----------------------------------------------------------------------------
(* Same-day tie-break sorter and the driver's date sort. *)

\* The row e put into the date-sorted table df behind every row that is not
\* later than it.
RECURSIVE InsertByDate(_, _)
InsertByDate(df, e) ==
    IF df = << >> THEN <<e>>
    ELSE IF df[Len(df)].administratedate <= e.administratedate THEN Append(df, e)
    ELSE Append(InsertByDate(SubSeq(df, 1, Len(df) - 1), e), df[Len(df)])

\* The rows of the patient left in the order of the input table.
sort_values_kept(df) == df

\* df.sort_values('administratedate').reset_index(drop=True).  For a table
\* of at most 16 rows numpy's default sort is an insertion sort, which keeps
\* the input order of rows that share a date.
RECURSIVE sort_values(_)
sort_values(df) ==
    IF df = << >> THEN << >>
    ELSE InsertByDate(sort_values(SubSeq(df, 1, Len(df) - 1)), df[Len(df)])

\* The loop of custom_sort_same_date over the date groups of df[i..], df
\* sorted by date; prev_drugs is the drug set of the group before.
RECURSIVE SortGroupsFrom(_, _, _)
SortGroupsFrom(df, i, prev_drugs) ==
    IF i > Len(df) THEN << >>
    ELSE LET date == df[i].administratedate
             last == CHOOSE j \in i..Len(df) :
                        /\ df[j].administratedate = date
                        /\ (j = Len(df) \/ df[j + 1].administratedate # date)
             group == SubSeq(df, i, last)
             prev_drugs_lower == {Lower(drug) : drug \in prev_drugs}
             is_diff(r) == Lower(r.drugname) \notin prev_drugs_lower
             ordered == IF prev_drugs # {} /\ Len(group) > 1
                        THEN SelectSeq(group, is_diff)
                             \o SelectSeq(group, LAMBDA r : ~is_diff(r))
                        ELSE group
         IN  ordered \o SortGroupsFrom(df, last + 1, {r.drugname : r \in Range(ordered)})

\* The sorter that returns the date groups as they are.
custom_sort_groups_kept(df) == df

custom_sort_same_date(df) == SortGroupsFrom(df, 1, {})

----------------------------------------------------------------------------
(* Line summary builder. *)

\* line_data['drugname'].value_counts().to_dict()
ValueCounts(line_data) ==
    [d \in {r.drugname : r \in Range(line_data)} |->
        Cardinality({i \in 1..Len(line_data) : line_data[i].drugname = d})]

\* The rows of line line_num and of the lines before it.
LineDataUpTo(df, line_num) == SelectSeq(df, LAMBDA r : r.line_of_therapy <= line_num)

\* patient_df[patient_df['line_of_therapy'] == line_num]
LineData(df, line_num) == SelectSeq(df, LAMBDA r : r.line_of_therapy = line_num)

\* The duration with both end days counted.
LineDurationInclusive(line_data) ==
    line_data[Len(line_data)].line_end_date[1] - line_data[1].line_start_date[1] + 1

\* duration_days: (line_end_date.iloc[-1] - line_start_date.iloc[0]).days
LineDuration(line_data) ==
    line_data[Len(line_data)].line_end_date[1] - line_data[1].line_start_date[1]

\* The flag with all() in place of any().
LineMaintenanceAll(line_data) == \A r \in Range(line_data) : r.maintenance_flag

\* maintenance_flag: any(line_data['maintenance_flag'])
LineMaintenance(line_data) == \E r \in Range(line_data) : r.maintenance_flag

\* The summary row of create_lot_summary for line line_num.
SummaryRow(df, line_num, di, seed) ==
    LET line_data == LineData(df, line_num)
        drugs_in_line == Sorted({r.drugname : r \in Range(line_data)})
        line_admin_counts == ValueCounts(line_data)
        standard_regimen ==
            identify_standard_regimen(PySetFrom(seed, drugs_in_line), di,
                                      line_admin_counts, seed)
        first == line_data[1]
        final == line_data[Len(line_data)]
    IN  [patientid |-> first.patientid,
         line_of_therapy |-> line_num,
         line_start_date |-> first.line_start_date,
         line_end_date |-> final.line_end_date,
         duration_days |-> LineDuration(line_data),
         num_administrations |-> Len(line_data),
         drugs |-> Join("+", drugs_in_line),
         line_admin_counts |-> line_admin_counts,
         regimen_type |-> IF standard_regimen # "" THEN standard_regimen ELSE "Other",
         maintenance_flag |-> LineMaintenance(line_data)]

\* create_lot_summary(patient_df, drug_interchangeability): one row for
\* every line number of the table in increasing order, 0 skipped.
RECURSIVE SummaryFrom(_, _, _, _)
SummaryFrom(df, line_num, di, seed) ==
    LET lines == {r.line_of_therapy : r \in Range(df)}
    IN  IF \A n \in lines : n < line_num THEN << >>
        ELSE IF line_num = 0 \/ line_num \notin lines
            THEN SummaryFrom(df, line_num + 1, di, seed)
        ELSE <<SummaryRow(df, line_num, di, seed)>>
             \o SummaryFrom(df, line_num + 1, di, seed)

create_lot_summary(df, di, seed) == SummaryFrom(df, 0, di, seed)

----------------------------------------------------------------------------
(* The driver and the loop of calculate_patient_lot. *)

\* The output columns as calculate_patient_lot initialises them.
InitColumns(e) ==
    [patientid |-> e.patientid, drugname |-> e.drugname,
     drugcategory |-> e.drugcategory, administratedate |-> e.administratedate,
     line_of_therapy |-> 0, regimen |-> "", line_start_date |-> None,
     line_end_date |-> None, regimen_status |-> "", regimen_type |-> "",
     maintenance_flag |-> FALSE, days_from_first_line |-> 0,
     days_from_prev_treatment |-> 0, in_initial_window |-> FALSE]

\* An administration event of the input table.
Event(drug, category, date) ==
    [patientid |-> "P1", drugname |-> drug, drugcategory |-> category,
     administratedate |-> date]

\* Chemotherapy and an anti-VEGF agent on day 0, inside the 28-day window
\* (day 10), exactly a treatment gap after day 10 (day 190, more than a gap
\* after day 0) and more than a gap after day 190 (day 371).
GapEvents ==
    {Event(d, "chemotherapy", t) :
        d \in {"5-fluorouracil", "oxaliplatin"}, t \in {0, 10, 190, 371}}
    \cup {Event("bevacizumab", "biologics", t) : t \in {0, 10, 190, 371}}

\* The two fluoropyrimidines and a platinum agent on day 0, past the 28-day
\* window (day 30) and past flu_dis_period (day 50, inside the 28-day
\* lookahead of day 30).
SwitchEvents ==
    {Event(d, "chemotherapy", t) :
        d \in {"5-fluorouracil", "capecitabine", "oxaliplatin"}, t \in {0, 30, 50}}

\* FOLFOX on day 0, bevacizumab inside the 28-day window (day 10) or past it
\* and within after_initial_period (day 40), leucovorin and oxaliplatin
\* after 200 idle days.
FolfoxEvents ==
    {Event(d, "chemotherapy", 0) : d \in {"5-fluorouracil", "leucovorin", "oxaliplatin"}}
    \cup {Event("bevacizumab", "biologics", t) : t \in {10, 40}}
    \cup {Event(d, "chemotherapy", 200) : d \in {"leucovorin", "oxaliplatin"}}

Universes == {GapEvents, SwitchEvents, FolfoxEvents}

\* An administration event of patient patient.
EventOf(patient, drug, category, date) ==
    [patientid |-> patient, drugname |-> drug, drugcategory |-> category,
     administratedate |-> date]

\* A course that goes from 5-fluorouracil with oxaliplatin (day 0) to
\* capecitabine with oxaliplatin (day 30), capecitabine again on day 50.
SwitchCourse ==
    {Event(d, "chemotherapy", 0) : d \in {"5-fluorouracil", "oxaliplatin"}}
    \cup {Event(d, "chemotherapy", 30) : d \in {"capecitabine", "oxaliplatin"}}
    \cup {Event("capecitabine", "chemotherapy", 50)}

\* 5-fluorouracil on day 0 and, on day 40 (past the 28-day window, within
\* every threshold), an anti-VEGF agent, an anti-EGFR agent and a platinum
\* agent: one event for each threshold of the configuration.
ConfigEvents ==
    {Event("5-fluorouracil", "chemotherapy", 0), Event("bevacizumab", "biologics", 40),
     Event("cetuximab", "biologics", 40), Event("oxaliplatin", "chemotherapy", 40)}

\* Events the input contract does not pin down: leucovorin under a category
\* that is none of the three, oxaliplatin spelled with a capital letter, and
\* an immunotherapy agent, which is in no subclass of the taxonomy.
EdgeEvents ==
    {Event("5-fluorouracil", "chemotherapy", 0), Event("oxaliplatin", "chemotherapy", 0),
     Event("leucovorin", "supportive", 7), Event("Oxaliplatin", "chemotherapy", 14),
     Event("pembrolizumab", "biologics", 40)}

\* Two patients: P1 goes from 5-fluorouracil to capecitabine on day 30, P2
\* has oxaliplatin within 28 days of that day and again after a gap.
TwoPatients ==
    {EventOf("P1", "5-fluorouracil", "chemotherapy", 0),
     EventOf("P1", "capecitabine", "chemotherapy", 30),
     EventOf("P2", "oxaliplatin", "chemotherapy", 40),
     EventOf("P2", "oxaliplatin", "chemotherapy", 300)}

DriverUniverses == {SwitchCourse, ConfigEvents, EdgeEvents, TwoPatients}

\* Two dates with several drugs each: the drugs of day 14 that are given on
\* day 0 too (5-fluorouracil, oxaliplatin, the latter capitalised on day 14)
\* and one that is not (capecitabine).
SameDateEvents ==
    {Event("5-fluorouracil", "chemotherapy", 0), Event("oxaliplatin", "chemotherapy", 0),
     Event("5-fluorouracil", "chemotherapy", 14), Event("Oxaliplatin", "chemotherapy", 14),
     Event("capecitabine", "chemotherapy", 14), Event("bevacizumab", "biologics", 14)}

SorterUniverses == {SameDateEvents}

\* Biologic and targeted agents inside the 28-day window of day 0 (days 0, 7
\* and 14) and past it (day 40, within every threshold).
ThirdAgentEvents ==
    {Event("5-fluorouracil", "chemotherapy", 0), Event("bevacizumab", "biologics", 0),
     Event("cetuximab", "biologics", 7), Event("panitumumab", "biologics", 14),
     Event("panitumumab", "biologics", 40), Event("regorafenib", "targeted", 40)}

\* An agent of each subclass on the last day within its threshold and on
\* the day after: after_initial_period (60) for anti-VEGF, bio_dis1_period
\* (90) for anti-EGFR and other targeted.
ThresholdEvents ==
    {Event("5-fluorouracil", "chemotherapy", 0),
     Event("bevacizumab", "biologics", 60), Event("bevacizumab", "biologics", 61),
     Event("cetuximab", "biologics", 90), Event("cetuximab", "biologics", 91),
     Event("regorafenib", "targeted", 90), Event("regorafenib", "targeted", 91)}

BiologicUniverses == {ThirdAgentEvents, ThresholdEvents}

\* 5-fluorouracil and oxaliplatin on day 0, capecitabine inside the 28-day
\* window (day 10), 5-fluorouracil again past flu_dis_period (day 60), and
\* events in and just past the lookahead of day 10: a biologic (day 20),
\* chemotherapy on its last day (day 38) and on the day after (day 39).
LookaheadEvents ==
    {Event("5-fluorouracil", "chemotherapy", 0), Event("oxaliplatin", "chemotherapy", 0),
     Event("capecitabine", "chemotherapy", 10), Event("bevacizumab", "biologics", 20),
     Event("oxaliplatin", "chemotherapy", 38), Event("irinotecan", "chemotherapy", 38),
     Event("oxaliplatin", "chemotherapy", 39), Event("5-fluorouracil", "chemotherapy", 60)}

\* Platinum agents, a topoisomerase inhibitor and leucovorin on day 0, and
\* a fluoropyrimidine past the 28-day window: within flu_dis_period (day 40)
\* and past it (day 100).
BackboneEvents ==
    {Event("oxaliplatin", "chemotherapy", 0), Event("irinotecan", "chemotherapy", 0),
     Event("leucovorin", "chemotherapy", 0), Event("cisplatin", "chemotherapy", 0),
     Event("5-fluorouracil", "chemotherapy", 40),
     Event("5-fluorouracil", "chemotherapy", 100),
     Event("capecitabine", "chemotherapy", 100)}

\* A fluoropyrimidine or a biologic on day 0 and a new chemotherapy drug on
\* the last day of the 28-day window, on the day after, on the last day of
\* flu_dis_period (45) and on the day after.
ChemoWindowEvents ==
    {Event("5-fluorouracil", "chemotherapy", 0), Event("bevacizumab", "biologics", 0),
     Event("oxaliplatin", "chemotherapy", 28), Event("oxaliplatin", "chemotherapy", 29),
     Event("oxaliplatin", "chemotherapy", 45), Event("oxaliplatin", "chemotherapy", 46),
     Event("5-fluorouracil", "chemotherapy", 45),
     Event("5-fluorouracil", "chemotherapy", 46)}

ChemoUniverses == {LookaheadEvents, BackboneEvents, ChemoWindowEvents}

\* The components of LONSURF and its literal name on day 0, and an other
\* targeted agent, an anti-VEGF agent and a fluoropyrimidine inside the
\* 28-day window (day 7).
LonsurfEvents ==
    {Event("trifluridine", "chemotherapy", 0), Event("tipiracil", "chemotherapy", 0),
     Event("lonsurf", "chemotherapy", 0), Event("regorafenib", "targeted", 7),
     Event("bevacizumab", "biologics", 7), Event("5-fluorouracil", "chemotherapy", 7)}

\* The two fluoropyrimidines with their partners (oxaliplatin, irinotecan,
\* leucovorin) on day 0, and each fluoropyrimidine again a week later, so
\* that either can have the higher administration count in the line.
NamingEvents ==
    {Event(d, "chemotherapy", 0) :
        d \in {"5-fluorouracil", "capecitabine", "oxaliplatin", "irinotecan", "leucovorin"}}
    \cup {Event(d, "chemotherapy", 7) : d \in {"5-fluorouracil", "capecitabine"}}

ClassifierUniverses == {LonsurfEvents, NamingEvents}

\* The largest number of rows of an input table over the events of a
\* universe; the course of SwitchCourse has five events.
MaxRows(events) == IF events = SwitchCourse THEN MaxEvents + 1 ELSE MaxEvents

\* The input tables over the administration events of a universe.
Inputs(events) == UNION {[1..n -> events] : n \in 1..MaxRows(events)}

\* The keys of the configuration: the thresholds of the three option
\* dictionaries and the keys of drug_interchangeability['CRC'].
ThresholdKeys ==
    {"gap_treatment_restart", "after_initial_period", "bio_dis1_period", "flu_dis_period"}

TaxonomyKeys ==
    {"fluoropyrimidines", "anti_vegf", "anti_egfr", "other_targeted", "chemotherapy",
     "sequence_rules"}

\* The configurations a universe is run with.
MissingKeys(events) ==
    IF events = ConfigEvents THEN {"none"} \cup ThresholdKeys \cup TaxonomyKeys
    ELSE IF events = TwoPatients THEN {"none", "gap_treatment_restart"}
    ELSE {"none"}

Init ==
    /\ pc = "idle"
    /\ universe \in Universes
    /\ hashseed \in HashSeeds
    /\ config_missing = "none"
    /\ rest = << >>
    /\ result = None
    /\ patient_df = << >>
    /\ idx = 0
    /\ line_counter = 1
    /\ current_regimen_drugs = << >>
    /\ last_admin_date = None
    /\ last_line_start_date = None
    /\ current_window_end = None
    /\ in_initial_window = TRUE
    /\ biologic_targeted_drugs = {}
    /\ detailed_output = << >>
    /\ summary_output = << >>

\* df[df['patientid'] == patient_id]
PatientRows(df, patient_id) == SelectSeq(df, LAMBDA r : r.patientid = patient_id)

\* The rows of df that are left for the later patients of
\* df['patientid'].unique(), which lists the ids in the order of their first
\* rows.
OtherRows(df, patient_id) == SelectSeq(df, LAMBDA r : r.patientid # patient_id)

\* define_treatment_lines_oncology takes the next patient id of
\* df['patientid'].unique() (the first one when it is called with df): the
\* patient's rows sorted by date and by custom_sort_same_date, and
\* calculate_patient_lot up to its loop (local state and output columns
\* initialised).
StartPatient ==
    /\ pc \in {"idle", "next"}
    /\ \E df \in (IF pc = "idle" THEN Inputs(universe) ELSE {rest}) :
          LET patient_id == df[1].patientid
          IN  /\ patient_df' = MapSeq(InitColumns,
                                      custom_sort_same_date(
                                          sort_values(PatientRows(df, patient_id))))
              /\ rest' = OtherRows(df, patient_id)
    /\ idx' = 0
    /\ line_counter' = 1
    /\ current_regimen_drugs' = << >>
    /\ last_admin_date' = None
    /\ last_line_start_date' = None
    /\ current_window_end' = None
    /\ in_initial_window' = TRUE
    /\ biologic_targeted_drugs' = {}
    /\ pc' = "lot"
    /\ UNCHANGED <<universe, hashseed, config_missing, result, detailed_output,
                   summary_output>>

\* line_counter incremented twice on a new line.
NextLineCounterTwice(counter, new_line_needed) ==
    IF new_line_needed THEN counter + 2 ELSE counter

\* The counter incremented on every row.
NextLineCounterAlways(counter, new_line_needed) == counter + 1

\* line_counter after the decision on a row.
NextLineCounter(counter, new_line_needed) ==
    IF new_line_needed THEN counter + 1 ELSE counter

\* current_regimen_drugs replaced by the row's drug at every row.
NextRegimenDrugsReplaced(seed, regimen_drugs, drugname, new_line_needed) == <<drugname>>

\* current_regimen_drugs after the decision on a row that is not the first.
NextRegimenDrugs(seed, regimen_drugs, drugname, new_line_needed) ==
    IF new_line_needed THEN <<drugname>> ELSE PySetAdd(seed, regimen_drugs, drugname)

\* biologic_targeted_drugs without the reset of a new line.
NextBiologicTargetedKept(bt, row, new_line_needed) ==
    IF row.drugcategory \in {"biologics", "targeted"} THEN bt \cup {row.drugname} ELSE bt

\* biologic_targeted_drugs at the end of the iteration; bt is the set as
\* process_subsequent_administrations left it.
NextBiologicTargeted(bt, row, new_line_needed) ==
    LET kept == IF new_line_needed THEN {} ELSE bt
    IN  IF row.drugcategory \in {"biologics", "targeted"}
        THEN kept \cup {row.drugname} ELSE kept

\* line_of_therapy written only to the rows that start a line.
AssignedLineOnNewLine(counter, new_line_needed, placeholder) ==
    IF new_line_needed THEN counter ELSE placeholder

\* The line_of_therapy written to the row; placeholder is the value the
\* column was initialised with.
AssignedLine(counter, new_line_needed, placeholder) == counter

\* The lookahead scanning the whole input table.
LookaheadFrameAll(patient_rows, other_rows) == patient_rows \o other_rows

\* The table the lookahead of the fluoropyrimidine-switch rule scans:
\* patient_df, the copy calculate_patient_lot made of the patient's rows.
LookaheadFrame(patient_rows, other_rows) == patient_rows

\* The line start left alone when a line is opened.
NextLineStartKept(line_start, current_date, new_line_needed) == line_start

\* last_line_start_date after the row: its date if it opens a line.
NextLineStart(line_start, current_date, new_line_needed) ==
    IF new_line_needed THEN current_date ELSE line_start

\* The window test with its last day left out.
InInitialWindowOpen(current_date, window_end) == current_date < window_end

\* in_initial_window = current_date <= current_window_end
InInitialWindow(current_date, window_end) == current_date <= window_end

\* The local variables of calculate_patient_lot.
LocalState ==
    [line_counter |-> line_counter,
     current_regimen_drugs |-> current_regimen_drugs,
     last_admin_date |-> last_admin_date,
     last_line_start_date |-> last_line_start_date,
     current_window_end |-> current_window_end,
     in_initial_window |-> in_initial_window,
     biologic_targeted_drugs |-> biologic_targeted_drugs]

\* One iteration of the loop of calculate_patient_lot for row i + 1 of df
\* (the row of index i), from the local variables st: whether it raised
\* KeyError, the local variables after it and the row as it is annotated.
\* others holds the rows of the other patients of the input table, seed is
\* the hash seed and missing is the key the configuration lacks.
Iteration(st, df, i, others, seed, missing) ==
    LET row == df[i + 1]
        current_date == row.administratedate
        restart == st.last_line_start_date = None
                   \/ (st.last_line_start_date = Some(current_date) /\ i > 0)
        line_start == IF restart THEN current_date ELSE st.last_line_start_date[1]
        window_end == IF restart THEN current_date + 28 ELSE st.current_window_end[1]
        regimen0 == IF restart /\ i = 0 THEN <<row.drugname>>
                    ELSE st.current_regimen_drugs
        days_since_line_start == current_date - line_start
        days_since_last_admin ==
            IF st.last_admin_date # None THEN current_date - st.last_admin_date[1] ELSE 0
        window == InInitialWindow(current_date, window_end)
        decided ==
            IF i = 0
            THEN [new_line_needed |-> FALSE, regimen_status |-> "Initial Regimen",
                  biologic_targeted_drugs |-> st.biologic_targeted_drugs]
            ELSE process_subsequent_administrations(
                     row, regimen0, st.last_admin_date, line_start,
                     st.biologic_targeted_drugs, drug_interchangeability,
                     new_biologic_agent_options, new_chemo_agent_options,
                     gap_period_options, window, LookaheadFrame(df, others))
        keys_read == CommonFieldKeys
                     \cup (IF i = 0 THEN {}
                           ELSE ProcessSubsequentKeys(decided.regimen_status))
        new_line == decided.new_line_needed
        counter == NextLineCounter(st.line_counter, new_line)
        regimen1 == IF i = 0 THEN regimen0
                    ELSE NextRegimenDrugs(seed, regimen0, row.drugname, new_line)
        line_start1 == NextLineStart(line_start, current_date, new_line)
        current_regimen_type ==
            identify_standard_regimen(regimen1, drug_interchangeability, << >>, seed)
        annotated ==
            [row EXCEPT
                !.in_initial_window = IF new_line THEN TRUE ELSE window,
                !.days_from_first_line =
                    IF i = 0 THEN row.days_from_first_line
                    ELSE IF new_line THEN 0 ELSE days_since_line_start,
                !.line_of_therapy =
                    AssignedLine(counter, new_line, row.line_of_therapy),
                !.regimen_status = decided.regimen_status,
                !.regimen = Join("+", Sorted(Range(regimen1))),
                !.line_start_date = Some(line_start1),
                !.line_end_date = Some(current_date),
                !.regimen_type = IF current_regimen_type # ""
                                 THEN current_regimen_type ELSE "Other",
                !.maintenance_flag =
                    is_maintenance_therapy(regimen1, drug_interchangeability),
                !.days_from_prev_treatment = days_since_last_admin]
    IN  IF missing \in keys_read
        THEN [raised |-> TRUE, st |-> st, row |-> row]
        ELSE [raised |-> FALSE,
              st |-> [line_counter |-> counter,
                      current_regimen_drugs |-> regimen1,
                      last_admin_date |-> Some(current_date),
                      last_line_start_date |-> Some(line_start1),
                      current_window_end |-> IF new_line THEN Some(current_date + 28)
                                             ELSE Some(window_end),
                      in_initial_window |-> IF new_line THEN TRUE ELSE window,
                      biologic_targeted_drugs |->
                          NextBiologicTargeted(decided.biologic_targeted_drugs, row,
                                               new_line)],
              row |-> annotated]

\* The local variables as calculate_patient_lot initialises them.
FreshState ==
    [line_counter |-> 1, current_regimen_drugs |-> << >>, last_admin_date |-> None,
     last_line_start_date |-> None, current_window_end |-> None,
     in_initial_window |-> TRUE, biologic_targeted_drugs |-> {}]

\* The loop of calculate_patient_lot from row i + 1 on, for a table df that
\* holds the rows of one patient and nothing else.
RECURSIVE LoopFrom(_, _, _, _)
LoopFrom(st, df, i, seed) ==
    IF i >= Len(df) THEN df
    ELSE LET it == Iteration(st, df, i, << >>, seed, "none")
         IN  LoopFrom(it.st, [df EXCEPT ![i + 1] = it.row], i + 1, seed)

\* calculate_patient_lot on the sorted rows of one patient, under the full
\* configuration.
calculate_patient_lot(sorted_rows, seed) ==
    LoopFrom(FreshState, MapSeq(InitColumns, sorted_rows), 0, seed)

\* The tables so far returned from a handler of the exception, the rows the
\* failed patient had annotated among them.
ReturnedOnErrorPartial(detailed, summary, annotated) == <<detailed \o annotated, summary>>

\* What the caller of define_treatment_lines_oncology gets when an exception
\* leaves the loop: nothing, whatever the tables held (annotated is the part
\* of the failed patient's table that was annotated).
ReturnedOnError(detailed, summary, annotated) == None

\* One iteration of the loop of calculate_patient_lot, for row idx; a
\* KeyError leaves calculate_patient_lot and define_treatment_lines_oncology.
ProcessAdministration ==
    /\ pc = "lot"
    /\ idx < Len(patient_df)
    /\ \E it \in {Iteration(LocalState, patient_df, idx, detailed_output \o rest,
                              hashseed, config_missing)} :
           IF it.raised
           THEN /\ pc' = "error"
                /\ result' = ReturnedOnError(detailed_output, summary_output,
                                             SubSeq(patient_df, 1, idx))
                /\ UNCHANGED <<patient_df, idx, line_counter, current_regimen_drugs,
                               last_admin_date, last_line_start_date, current_window_end,
                               in_initial_window, biologic_targeted_drugs>>
           ELSE /\ patient_df' = [patient_df EXCEPT ![idx + 1] = it.row]
                /\ line_counter' = it.st.line_counter
                /\ current_regimen_drugs' = it.st.current_regimen_drugs
                /\ biologic_targeted_drugs' = it.st.biologic_targeted_drugs
                /\ last_line_start_date' = it.st.last_line_start_date
                /\ current_window_end' = it.st.current_window_end
                /\ in_initial_window' = it.st.in_initial_window
                /\ last_admin_date' = it.st.last_admin_date
                /\ idx' = idx + 1
                /\ UNCHANGED <<pc, result>>
    /\ UNCHANGED <<universe, hashseed, config_missing, rest, detailed_output,
                   summary_output>>

\* calculate_patient_lot returns; the driver builds the patient's summary and
\* appends both tables to its outputs, and returns them after the last
\* patient.
Summarize ==
    /\ pc = "lot"
    /\ idx = Len(patient_df)
    /\ detailed_output' = detailed_output \o patient_df
    /\ summary_output' = summary_output
                         \o create_lot_summary(patient_df, drug_interchangeability, hashseed)
    /\ pc' = IF rest = << >> THEN "done" ELSE "next"
    /\ result' = IF rest = << >> THEN <<detailed_output', summary_output'>> ELSE None
    /\ UNCHANGED <<universe, hashseed, config_missing, rest, patient_df, idx, line_counter,
                   current_regimen_drugs, last_admin_date, last_line_start_date,
                   current_window_end, in_initial_window, biologic_targeted_drugs>>

Next == StartPatient \/ ProcessAdministration \/ Summarize

Spec == Init /\ [][Next]_vars

\* The engine called with an input table over the events of a driver
\* universe, under a configuration that may lack a key.
InitDriver ==
    /\ pc = "idle"
    /\ universe \in DriverUniverses
    /\ hashseed \in HashSeeds
    /\ config_missing \in MissingKeys(universe)
    /\ rest = << >>
    /\ result = None
    /\ patient_df = << >>
    /\ idx = 0
    /\ line_counter = 1
    /\ current_regimen_drugs = << >>
    /\ last_admin_date = None
    /\ last_line_start_date = None
    /\ current_window_end = None
    /\ in_initial_window = TRUE
    /\ biologic_targeted_drugs = {}
    /\ detailed_output = << >>
    /\ summary_output = << >>

SpecDriver == InitDriver /\ [][Next]_vars

\* The engine called with an input table over the events of a sorter
\* universe.
InitSorter ==
    /\ pc = "idle"
    /\ universe \in SorterUniverses
    /\ hashseed \in HashSeeds
    /\ config_missing = "none"
    /\ rest = << >>
    /\ result = None
    /\ patient_df = << >>
    /\ idx = 0
    /\ line_counter = 1
    /\ current_regimen_drugs = << >>
    /\ last_admin_date = None
    /\ last_line_start_date = None
    /\ current_window_end = None
    /\ in_initial_window = TRUE
    /\ biologic_targeted_drugs = {}
    /\ detailed_output = << >>
    /\ summary_output = << >>

SpecSorter == InitSorter /\ [][Next]_vars

\* The engine called with an input table over the events of a biologic
\* universe.
InitBiologic ==
    /\ pc = "idle"
    /\ universe \in BiologicUniverses
    /\ hashseed \in HashSeeds
    /\ config_missing = "none"
    /\ rest = << >>
    /\ result = None
    /\ patient_df = << >>
    /\ idx = 0
    /\ line_counter = 1
    /\ current_regimen_drugs = << >>
    /\ last_admin_date = None
    /\ last_line_start_date = None
    /\ current_window_end = None
    /\ in_initial_window = TRUE
    /\ biologic_targeted_drugs = {}
    /\ detailed_output = << >>
    /\ summary_output = << >>

SpecBiologic == InitBiologic /\ [][Next]_vars

\* The engine called with an input table over the events of a chemotherapy
\* universe.
InitChemo ==
    /\ pc = "idle"
    /\ universe \in ChemoUniverses
    /\ hashseed \in HashSeeds
    /\ config_missing = "none"
    /\ rest = << >>
    /\ result = None
    /\ patient_df = << >>
    /\ idx = 0
    /\ line_counter = 1
    /\ current_regimen_drugs = << >>
    /\ last_admin_date = None
    /\ last_line_start_date = None
    /\ current_window_end = None
    /\ in_initial_window = TRUE
    /\ biologic_targeted_drugs = {}
    /\ detailed_output = << >>
    /\ summary_output = << >>

SpecChemo == InitChemo /\ [][Next]_vars

\* The engine called with an input table over the events of a classifier
\* universe.
InitClassifier ==
    /\ pc = "idle"
    /\ universe \in ClassifierUniverses
    /\ hashseed \in HashSeeds
    /\ config_missing = "none"
    /\ rest = << >>
    /\ result = None
    /\ patient_df = << >>
    /\ idx = 0
    /\ line_counter = 1
    /\ current_regimen_drugs = << >>
    /\ last_admin_date = None
    /\ last_line_start_date = None
    /\ current_window_end = None
    /\ in_initial_window = TRUE
    /\ biologic_targeted_drugs = {}
    /\ detailed_output = << >>
    /\ summary_output = << >>

SpecClassifier == InitClassifier /\ [][Next]_vars

----------------------------------------------------------------------------
(* Properties. *)

\* The rows of the patient that are annotated: 1..idx.
Annotated == 1..idx

\* The universes of all specifications.
AllUniverses ==
    Universes \cup DriverUniverses \cup SorterUniverses \cup BiologicUniverses
    \cup ChemoUniverses \cup ClassifierUniverses

\* The drug names of the input tables.
UniverseDrugs == {e.drugname : e \in UNION AllUniverses}

\* The drug sets a regimen can hold: the sets of names of one universe.
RegimenSets == UNION {SUBSET {e.drugname : e \in U} : U \in AllUniverses}

\* The regimen strings '+'.join(sorted(S)) of those sets, each with the set
\* it was joined from.
SplitTable ==
    [regimen \in {Join("+", Sorted(S)) : S \in RegimenSets} |->
        CHOOSE S \in RegimenSets : Join("+", Sorted(S)) = regimen]

\* The drug set a regimen string "a+b+c" stands for (regimen.split('+')).
SplitRegimen(regimen) == SplitTable[regimen]

\* Row k is annotated, is not the first, and starts a new line.
StartsLine(k) ==
    /\ k \in Annotated
    /\ k > 1
    /\ patient_df[k].line_of_therapy # patient_df[k - 1].line_of_therapy

\* Days between row k and the row processed before it.
DaysSincePrev(k) == patient_df[k].administratedate - patient_df[k - 1].administratedate

\* C1: the line numbers of a patient's annotated rows are exactly 1..max, and
\* along the processing order the line number starts at 1 and from one row
\* to the next stays or grows by exactly 1.
ContiguousLines ==
    /\ idx >= 1 => patient_df[1].line_of_therapy = 1
    /\ \A k \in Annotated \ {1} :
          patient_df[k].line_of_therapy - patient_df[k - 1].line_of_therapy \in {0, 1}
    /\ pc = "done" =>
          \E max \in 1..Len(detailed_output) :
              {r.line_of_therapy : r \in Range(detailed_output)} = 1..max

\* A patient is done with three lines.
ThreeLinesDone ==
    /\ pc = "done"
    /\ \E r \in Range(detailed_output) : r.line_of_therapy = 3

\* C2: calculate_patient_lot returns one annotated row per input event, in
\* the order of the sorted table, and every row it annotated has a line
\* number of at least 1, at most the line counter.
EveryEventInOneLine ==
    /\ \A k \in Annotated :
          /\ patient_df[k].line_of_therapy >= 1
          /\ patient_df[k].line_of_therapy <= line_counter
    /\ pc = "done" =>
          /\ Len(detailed_output) = Len(patient_df)
          /\ \A k \in 1..Len(detailed_output) :
                /\ detailed_output[k].line_of_therapy >= 1
                /\ detailed_output[k].drugname = patient_df[k].drugname
                /\ detailed_output[k].administratedate = patient_df[k].administratedate
                /\ detailed_output[k].drugcategory = patient_df[k].drugcategory

\* A patient of four events in two lines is done.
FourEventsDone ==
    /\ pc = "done"
    /\ Len(detailed_output) = 4
    /\ {r.line_of_therapy : r \in Range(detailed_output)} = {1, 2}

\* C3: within a line the regimen of a row contains the regimen of the row
\* before; the regimen loses a drug only at a row that starts a new line.
RegimenGrowsWithinLine ==
    \A k \in Annotated \ {1} :
        ~StartsLine(k) =>
            SplitRegimen(patient_df[k - 1].regimen) \subseteq SplitRegimen(patient_df[k].regimen)

\* A line has grown from one drug to three.
RegimenGrew ==
    \E k \in Annotated \ {1} :
        /\ ~StartsLine(k)
        /\ Cardinality(SplitRegimen(patient_df[k].regimen)) = 3
        /\ \E j \in 1..(k - 1) :
              /\ patient_df[j].line_of_therapy = patient_df[k].line_of_therapy
              /\ Cardinality(SplitRegimen(patient_df[j].regimen)) = 1

\* C4: a row that starts a new line is annotated with the regimen of its own
\* drug alone, its own date as line_start_date and days_from_first_line 0;
\* and right after it the active drug set is that drug alone, the
\* biologic/targeted set holds that drug if it is biologic or targeted and
\* is empty otherwise, and the line starts on the row's date.
NewLineResets ==
    /\ \A k \in Annotated :
          StartsLine(k) =>
              /\ patient_df[k].regimen = patient_df[k].drugname
              /\ SplitRegimen(patient_df[k].regimen) = {patient_df[k].drugname}
              /\ patient_df[k].line_start_date = Some(patient_df[k].administratedate)
              /\ patient_df[k].days_from_first_line = 0
    /\ StartsLine(idx) =>
          /\ current_regimen_drugs = <<patient_df[idx].drugname>>
          /\ biologic_targeted_drugs =
                 IF patient_df[idx].drugcategory \in {"biologics", "targeted"}
                 THEN {patient_df[idx].drugname} ELSE {}
          /\ last_line_start_date = Some(patient_df[idx].administratedate)

\* A new line has just been started by a chemotherapy drug, without a
\* treatment gap, in a line that held a biologic agent and two other drugs.
NewLineAfterBiologic ==
    /\ StartsLine(idx)
    /\ patient_df[idx].drugcategory = "chemotherapy"
    /\ patient_df[idx].regimen_status # "New Line (Gap)"
    /\ Cardinality(SplitRegimen(patient_df[idx - 1].regimen)) = 3
    /\ "bevacizumab" \in SplitRegimen(patient_df[idx - 1].regimen)

\* C5: a row more than gap_treatment_restart days after the row processed
\* before it is in the next line with status "New Line (Gap)", whatever its
\* drug and category; a row exactly gap_treatment_restart days after it
\* does not get that status.
GapStartsLine ==
    \A k \in Annotated \ {1} :
        /\ DaysSincePrev(k) > gap_period_options.gap_treatment_restart =>
              /\ patient_df[k].line_of_therapy = patient_df[k - 1].line_of_therapy + 1
              /\ patient_df[k].regimen_status = "New Line (Gap)"
        /\ DaysSincePrev(k) = gap_period_options.gap_treatment_restart =>
              patient_df[k].regimen_status # "New Line (Gap)"

\* A biologic agent already in the regimen came back after more than a gap,
\* and a row exactly a gap after its predecessor was annotated before.
GapSeen ==
    \E k \in Annotated \ {1} :
        /\ DaysSincePrev(k) > gap_period_options.gap_treatment_restart
        /\ patient_df[k].drugcategory = "biologics"
        /\ patient_df[k].drugname \in SplitRegimen(patient_df[k - 1].regimen)
        /\ \E j \in 2..(k - 1) :
              DaysSincePrev(j) = gap_period_options.gap_treatment_restart

\* C6: a row on a later date than the row before it, at most
\* gap_treatment_restart days after it, whose drug is already in the
\* regimen, stays in the line with status "Continuation" and leaves the
\* regimen as it was.
ContinuationKeepsLine ==
    \A k \in Annotated \ {1} :
        (/\ DaysSincePrev(k) > 0
         /\ DaysSincePrev(k) <= gap_period_options.gap_treatment_restart
         /\ patient_df[k].drugname \in SplitRegimen(patient_df[k - 1].regimen)) =>
            /\ patient_df[k].line_of_therapy = patient_df[k - 1].line_of_therapy
            /\ patient_df[k].regimen_status = "Continuation"
            /\ patient_df[k].regimen = patient_df[k - 1].regimen

\* A drug of a three-drug regimen was repeated exactly a gap later, far
\* outside the line's initial window.
ContinuationSeen ==
    \E k \in Annotated \ {1} :
        /\ DaysSincePrev(k) = gap_period_options.gap_treatment_restart
        /\ patient_df[k].drugname \in SplitRegimen(patient_df[k - 1].regimen)
        /\ Cardinality(SplitRegimen(patient_df[k].regimen)) = 3
        /\ ~patient_df[k].in_initial_window

\* C7: a row is flagged maintenance exactly when its regimen contains every
\* drug of at least one configured maintenance combination; so whenever the
\* regimen of a flagged row is contained in the regimen of another row, that
\* row is flagged too.
MaintenanceSupersetLaw ==
    LET options == drug_interchangeability.CRC.sequence_rules.maintenance_options
    IN  /\ \A k \in Annotated :
              patient_df[k].maintenance_flag =
                  (\E i \in 1..Len(options) :
                      Range(options[i]) \subseteq SplitRegimen(patient_df[k].regimen))
        /\ \A j, k \in Annotated :
              (/\ patient_df[j].maintenance_flag
               /\ SplitRegimen(patient_df[j].regimen)
                      \subseteq SplitRegimen(patient_df[k].regimen)) =>
                  patient_df[k].maintenance_flag

\* A flagged regimen of two drugs was extended by a third drug that is in
\* no maintenance combination.
MaintenanceSupersetSeen ==
    \E j, k \in Annotated :
        /\ patient_df[j].maintenance_flag
        /\ SplitRegimen(patient_df[j].regimen) = {"5-fluorouracil", "leucovorin"}
        /\ SplitRegimen(patient_df[k].regimen)
               = {"5-fluorouracil", "leucovorin", "oxaliplatin"}
        /\ patient_df[k].maintenance_flag

\* C8: two calls of identify_standard_regimen with the same drug set, no
\* administration counts and the same configuration return the same label:
\* any two annotated rows with the same regimen have the same regimen_type.
ClassifierDeterministic ==
    \A j, k \in Annotated :
        SplitRegimen(patient_df[j].regimen) = SplitRegimen(patient_df[k].regimen) =>
            patient_df[j].regimen_type = patient_df[k].regimen_type

\* The rows of the table are 5-fluorouracil, leucovorin and oxaliplatin, once
\* each, on one date.
FolfoxOnDayZero(df) ==
    /\ Len(df) = 3
    /\ {df[k].drugname : k \in 1..3} = {"5-fluorouracil", "leucovorin", "oxaliplatin"}
    /\ \A k \in 1..3 : df[k].administratedate = df[1].administratedate

\* C9 (scenario A): a patient whose only events are 5-fluorouracil,
\* leucovorin and oxaliplatin on one date has all three rows in line 1, the
\* last of them with regimen_type "FOLFOX", and one summary row, of line 1
\* with regimen_type "FOLFOX".
ScenarioA ==
    (FolfoxOnDayZero(patient_df) /\ idx = 3) =>
        /\ \A k \in 1..3 : patient_df[k].line_of_therapy = 1
        /\ patient_df[3].regimen_type = "FOLFOX"
        /\ pc = "done" =>
              /\ Len(summary_output) = 1
              /\ summary_output[1].line_of_therapy = 1
              /\ summary_output[1].regimen_type = "FOLFOX"
              /\ summary_output[1].num_administrations = 3

\* Scenario A is done, with the rows in the order oxaliplatin, leucovorin,
\* 5-fluorouracil.
ScenarioADone ==
    /\ pc = "done"
    /\ FolfoxOnDayZero(patient_df)
    /\ patient_df[1].drugname = "oxaliplatin"
    /\ patient_df[2].drugname = "leucovorin"

\* FOLFOX on one date and then bevacizumab, a biologic, days later.
FolfoxThenBevacizumab(df, days) ==
    /\ Len(df) = 4
    /\ FolfoxOnDayZero(SubSeq(df, 1, 3))
    /\ df[4].drugname = "bevacizumab"
    /\ df[4].drugcategory = "biologics"
    /\ df[4].administratedate = df[1].administratedate + days

\* C10 (scenario B) as stated: bevacizumab on day 10 after FOLFOX on day 0 is
\* in the same line with status "Anti-VEGF Addition (Within Window)" and
\* regimen_type "FOLFOX + bevacizumab".
ScenarioBAsStated ==
    (FolfoxThenBevacizumab(patient_df, 10) /\ idx = 4) =>
        /\ patient_df[4].line_of_therapy = 1
        /\ patient_df[4].regimen_status = "Anti-VEGF Addition (Within Window)"
        /\ patient_df[4].regimen_type = "FOLFOX + bevacizumab"

\* C10 amended: bevacizumab on day 10 after FOLFOX on day 0 is inside the
\* 28-day initial window: it is in the same line with status
\* "New Biologic Addition (Initial Window)" and regimen_type
\* "FOLFOX + bevacizumab".  The status "Anti-VEGF Addition (Within Window)"
\* is that of bevacizumab past the initial window and within
\* after_initial_period (day 40), same line and regimen_type.
ScenarioB ==
    /\ (FolfoxThenBevacizumab(patient_df, 10) /\ idx = 4) =>
          /\ patient_df[4].line_of_therapy = 1
          /\ patient_df[4].in_initial_window
          /\ patient_df[4].regimen_status = "New Biologic Addition (Initial Window)"
          /\ patient_df[4].regimen_type = "FOLFOX + bevacizumab"
    /\ (FolfoxThenBevacizumab(patient_df, 40) /\ idx = 4) =>
          /\ patient_df[4].line_of_therapy = 1
          /\ ~patient_df[4].in_initial_window
          /\ patient_df[4].regimen_status = "Anti-VEGF Addition (Within Window)"
          /\ patient_df[4].regimen_type = "FOLFOX + bevacizumab"

\* Bevacizumab of day 10 after FOLFOX of day 0 has been annotated.
ScenarioBSeen ==
    /\ FolfoxThenBevacizumab(patient_df, 10)
    /\ idx = 4
    /\ patient_df[4].regimen_status # ""

\* Row k is the first capecitabine of a patient on 5-fluorouracil with
\* oxaliplatin: it is on a later date than the row before it and within the
\* treatment gap, oxaliplatin is given again on its date or later, and the
\* chemotherapy rows of the 28 days after it are capecitabine or oxaliplatin.
SwitchToCapecitabine(k) ==
    /\ k \in Annotated
    /\ k > 1
    /\ patient_df[k].drugname = "capecitabine"
    /\ \A j \in 1..(k - 1) : patient_df[j].drugname # "capecitabine"
    /\ SplitRegimen(patient_df[k - 1].regimen) = {"5-fluorouracil", "oxaliplatin"}
    /\ DaysSincePrev(k) > 0
    /\ DaysSincePrev(k) <= gap_period_options.gap_treatment_restart
    /\ \E j \in 1..Len(patient_df) :
          /\ patient_df[j].drugname = "oxaliplatin"
          /\ patient_df[j].administratedate >= patient_df[k].administratedate
    /\ \A j \in 1..Len(patient_df) :
          (/\ patient_df[j].drugcategory = "chemotherapy"
           /\ patient_df[j].administratedate > patient_df[k].administratedate
           /\ patient_df[j].administratedate <= patient_df[k].administratedate + 28) =>
              patient_df[j].drugname \in {"capecitabine", "oxaliplatin"}

\* The regimen names of the 5-FU family and of the capecitabine family.
FluorouracilNames == {"FOLFOXIRI", "FOLFOX", "FOLFIRI", "5-FU/LV", "5-FU"}

CapecitabineNames == {"CAPOXIRI", "CAPOX", "CAPIRI", "Capecitabine"}

\* C11 (Scenario D): the first capecitabine of a patient on 5-fluorouracil
\* with oxaliplatin, while oxaliplatin continues and no other chemotherapy
\* agent appears in the next 28 days, stays in the line with status
\* "Fluoropyrimidine Switch", and the summary names that line after the
\* fluoropyrimidine with the higher administration count.
ScenarioD ==
    \A k \in Annotated :
        SwitchToCapecitabine(k) =>
            /\ patient_df[k].line_of_therapy = patient_df[k - 1].line_of_therapy
            /\ patient_df[k].regimen_status = "Fluoropyrimidine Switch"
            /\ pc = "done" =>
                  \A r \in Range(summary_output) :
                      r.line_of_therapy = patient_df[k].line_of_therapy =>
                          LET fu_count == CountGet(r.line_admin_counts, "5-fluorouracil")
                              cape_count == CountGet(r.line_admin_counts, "capecitabine")
                          IN  /\ fu_count > cape_count =>
                                    r.regimen_type \in FluorouracilNames
                              /\ cape_count > fu_count =>
                                    r.regimen_type \in CapecitabineNames

\* C12: a patient with exactly one event gets one annotated row, in line 1,
\* with status "Initial Regimen" and the drug alone as regimen, and one
\* summary row with num_administrations 1 and duration_days 0.
SingleEventPatient ==
    /\ (Len(patient_df) = 1 /\ idx = 1) =>
          /\ patient_df[1].line_of_therapy = 1
          /\ patient_df[1].regimen_status = "Initial Regimen"
          /\ patient_df[1].regimen = patient_df[1].drugname
    /\ (pc = "done" /\ Len(patient_df) = 1) =>
          /\ detailed_output = patient_df
          /\ Len(summary_output) = 1
          /\ summary_output[1].line_of_therapy = 1
          /\ summary_output[1].num_administrations = 1
          /\ summary_output[1].duration_days = 0
          /\ summary_output[1].drugs = patient_df[1].drugname

\* The engine has returned the tables of a patient with one event.
SingleEventDone ==
    /\ pc = "done"
    /\ Len(patient_df) = 1
    /\ Len(result[1]) = 1
    /\ Len(result[2]) = 1

\* C13: under a configuration that lacks a required threshold or taxonomy
\* key the engine never completes the classification of a patient: it never
\* reaches the end of a patient's table and never returns.
ConfigErrorsFailFast ==
    config_missing # "none" =>
        /\ pc # "done"
        /\ ~(pc = "lot" /\ idx = Len(patient_df))

\* The values of drugcategory the input contract allows.
DrugCategories == {"chemotherapy", "biologics", "targeted"}

\* C14: an event whose drugcategory is missing or is none of chemotherapy,
\* biologics, targeted is rejected, alone or with the patient's batch: it is
\* never given a line, its drug never enters the regimen of the current
\* line, and it is never among the rows the engine returns.
MalformedEventsRejected ==
    /\ \A k \in Annotated :
          patient_df[k].drugcategory \notin DrugCategories =>
              /\ patient_df[k].line_of_therapy = 0
              /\ patient_df[k].drugname \notin SplitRegimen(patient_df[k].regimen)
    /\ pc = "done" =>
          \A r \in Range(result[1]) : r.drugcategory \in DrugCategories

\* C15: when processing a patient fails at some event, the caller is
\* returned no annotated row and no summary row of that patient, and the
\* driver's tables hold none: the rows of the events before the failing one
\* stay in the abandoned table of calculate_patient_lot.
NoPartialOutput ==
    pc = "error" =>
        LET failed == patient_df[1].patientid
        IN  /\ \A r \in Range(detailed_output) : r.patientid # failed
            /\ \A r \in Range(summary_output) : r.patientid # failed
            /\ result # None =>
                  /\ \A r \in Range(result[1]) : r.patientid # failed
                  /\ \A r \in Range(result[2]) : r.patientid # failed

\* A patient failed at its second event, after another patient had been
\* processed to the end.
FailedAfterFirstEvent ==
    /\ pc = "error"
    /\ idx = 1
    /\ patient_df[1].regimen_status = "Initial Regimen"
    /\ Len(patient_df) > 1
    /\ detailed_output # << >>

\* The input columns of an annotated row.
InputColumns(r) == EventOf(r.patientid, r.drugname, r.drugcategory, r.administratedate)

\* The patients whose tables the driver has appended.
ProcessedPatients == {r.patientid : r \in Range(detailed_output)}

\* C16: the annotated rows and the summary rows of a patient are those that
\* calculate_patient_lot and create_lot_summary give on the patient's own
\* events alone, whatever rows of other patients the input table holds and
\* in whatever order the patients are processed; the rows annotated so far
\* for the patient in progress agree with that run too, the outcome of the
\* fluoropyrimidine-switch lookahead included.
PatientIndependence ==
    config_missing = "none" =>
        /\ \A p \in ProcessedPatients :
              LET own == PatientRows(detailed_output, p)
                  alone == calculate_patient_lot(MapSeq(InputColumns, own), hashseed)
              IN  /\ own = alone
                  /\ PatientRows(summary_output, p)
                        = create_lot_summary(alone, drug_interchangeability, hashseed)
        /\ pc = "lot" =>
              SubSeq(patient_df, 1, idx)
                = SubSeq(calculate_patient_lot(MapSeq(InputColumns, patient_df), hashseed),
                         1, idx)

\* Both patients are processed; P1 went from 5-fluorouracil to capecitabine
\* on day 30 and the lookahead ran while the input held P2's oxaliplatin of
\* day 40.
TwoPatientsDone ==
    /\ pc = "done"
    /\ ProcessedPatients = {"P1", "P2"}
    /\ \E i \in 1..Len(detailed_output) :
          /\ detailed_output[i].patientid = "P1"
          /\ detailed_output[i].drugname = "capecitabine"
          /\ detailed_output[i].regimen_status = "Fluoropyrimidine Switch"
    /\ \E i \in 1..Len(detailed_output) :
          /\ detailed_output[i].patientid = "P2"
          /\ detailed_output[i].administratedate = 40

\* The indices of the rows of patient_df annotated with line n.
RowsOfLine(n) == {i \in 1..Len(patient_df) : patient_df[i].line_of_therapy = n}

\* The largest and the smallest element of a non-empty set of integers.
Largest(S) == CHOOSE x \in S : \A y \in S : y <= x

Smallest(S) == CHOOSE x \in S : \A y \in S : x <= y

\* The sum of num_administrations over the rows of a summary.
RECURSIVE TotalAdministrations(_)
TotalAdministrations(summary) ==
    IF summary = << >> THEN 0
    ELSE Head(summary).num_administrations + TotalAdministrations(Tail(summary))

\* C17: the summary of a patient has exactly one row for each line 1..N, in
\* that order; a row's num_administrations is the number of events annotated
\* with its line, its duration_days is the date of the line's last event
\* minus the date of its first event and is not negative, its drugs are the
\* distinct drug names of the line, and the num_administrations of the rows
\* add up to the number of events of the patient.
SummaryRowsPerLine ==
    pc = "done" =>
        LET N == Largest({r.line_of_therapy : r \in Range(patient_df)})
        IN  /\ Len(summary_output) = N
            /\ \A n \in 1..N :
                  LET srow == summary_output[n]
                      rows == RowsOfLine(n)
                  IN  /\ srow.line_of_therapy = n
                      /\ rows # {}
                      /\ srow.num_administrations = Cardinality(rows)
                      /\ srow.duration_days
                            = patient_df[Largest(rows)].administratedate
                              - patient_df[Smallest(rows)].administratedate
                      /\ srow.duration_days >= 0
                      /\ SplitRegimen(srow.drugs) = {patient_df[i].drugname : i \in rows}
            /\ TotalAdministrations(summary_output) = Len(patient_df)

\* A summary of two lines or more, one of them with several events of
\* different drugs over more than a day.
SeveralLinesSummarized ==
    /\ pc = "done"
    /\ Len(summary_output) >= 2
    /\ \E n \in 1..Len(summary_output) :
          /\ summary_output[n].num_administrations >= 2
          /\ summary_output[n].duration_days > 0
          /\ Cardinality(SplitRegimen(summary_output[n].drugs)) >= 2

\* C18: the maintenance_flag of a summary row is the logical OR of the
\* maintenance_flag of the events of its line: true iff at least one event
\* of the line was flagged maintenance.
SummaryMaintenanceIsOr ==
    pc = "done" =>
        \A n \in 1..Len(summary_output) :
            summary_output[n].maintenance_flag
              <=> \E i \in RowsOfLine(summary_output[n].line_of_therapy) :
                      patient_df[i].maintenance_flag

\* A summarized line with an event that was flagged maintenance and an event
\* that was not, next to a line with no flagged event.
MixedMaintenanceLine ==
    /\ pc = "done"
    /\ \E n \in 1..Len(summary_output) :
          /\ summary_output[n].maintenance_flag
          /\ \E i, j \in RowsOfLine(n) :
                patient_df[i].maintenance_flag /\ ~patient_df[j].maintenance_flag
    /\ \E n \in 1..Len(summary_output) : ~summary_output[n].maintenance_flag

\* The transition-reason codes of the rule set that open a line, the codes
\* that keep the line, and all of them.
NewLineCodes ==
    {"New Line (Gap)", "New Line (Third Biologic/Targeted Agent Added)",
     "New Line (Anti-VEGF Addition)", "New Line (EGFR Addition/Switch)",
     "New Line (Other Targeted Addition)", "New Line (Fluoropyrimidine Replacement)",
     "New Line (Invalid Chemo Addition)", "New Line (New Chemo Addition)"}

WithinWindowCodes ==
    {"Anti-VEGF Addition (Within Window)", "EGFR Addition (Within Window)",
     "Other Targeted Addition (Within Window)", "New Chemo Addition (Within Window)"}

TransitionCodes ==
    NewLineCodes \cup WithinWindowCodes
    \cup {"Initial Regimen", "Same Day Administration", "Continuation",
          "New Biologic Addition (Initial Window)", "Fluoropyrimidine Switch",
          "New Chemo Addition (Initial Window)",
          "New Chemo Addition (Fluoropyrimidine to Backbone)"}

\* Row k adds a biologic or targeted drug the line has not seen, after the
\* 28-day window of the line and within a treatment gap of row k - 1.
NewBiologicOutsideWindow(k) ==
    /\ k \in Annotated
    /\ k > 1
    /\ patient_df[k].drugcategory \in {"biologics", "targeted"}
    /\ \A j \in 1..(k - 1) : patient_df[j].drugname # patient_df[k].drugname
    /\ DaysSincePrev(k) > 0
    /\ DaysSincePrev(k) <= gap_period_options.gap_treatment_restart
    /\ ~patient_df[k].in_initial_window

\* C19: every annotated event whose drugcategory is chemotherapy, biologics
\* or targeted carries a regimen_status that is not empty and is one of the
\* transition-reason codes; a new biologic or targeted drug added outside the
\* initial window has a "New Line (...)" or a "... (Within Window)" code.
EveryEventHasStatusCode ==
    \A k \in Annotated :
        /\ patient_df[k].drugcategory \in DrugCategories
              => /\ patient_df[k].regimen_status # ""
                 /\ patient_df[k].regimen_status \in TransitionCodes
        /\ NewBiologicOutsideWindow(k)
              => patient_df[k].regimen_status \in NewLineCodes \cup WithinWindowCodes

\* The drugs of the regimen as row k found it: the regimen of row k - 1.
RegimenBefore(k) == SplitRegimen(patient_df[k - 1].regimen)

\* Row k comes within a treatment gap of row k - 1, on a later date, and its
\* drug name differs only in letter case from a drug of the current regimen.
CaseVariantOfRegimenDrug(k) ==
    /\ k \in Annotated
    /\ k > 1
    /\ DaysSincePrev(k) > 0
    /\ DaysSincePrev(k) <= gap_period_options.gap_treatment_restart
    /\ \E d \in RegimenBefore(k) :
          d # patient_df[k].drugname /\ Lower(d) = Lower(patient_df[k].drugname)

\* C20: the state machine matches drug names without regard to letter case:
\* an event whose drug name differs only in case from a drug of the current
\* regimen is a "Continuation", stays in the line and adds no distinct drug
\* to the regimen.
CaseInsensitiveMatching ==
    \A k \in Annotated :
        CaseVariantOfRegimenDrug(k) =>
            /\ patient_df[k].regimen_status = "Continuation"
            /\ patient_df[k].line_of_therapy = patient_df[k - 1].line_of_therapy
            /\ {Lower(d) : d \in SplitRegimen(patient_df[k].regimen)}
                  = {Lower(d) : d \in RegimenBefore(k)}
            /\ Cardinality(SplitRegimen(patient_df[k].regimen))
                  = Cardinality(RegimenBefore(k))

\* The number of rows of the annotated table df that hold event e in line n.
RowsWith(df, e, n) ==
    Cardinality({i \in 1..Len(df) : InputColumns(df[i]) = e /\ df[i].line_of_therapy = n})

\* The driver's work on one patient whose rows come in the order of df:
\* date sort, tie-break sort, calculate_patient_lot.
AnnotatePatient(df, seed) ==
    calculate_patient_lot(custom_sort_same_date(sort_values(df)), seed)

\* The rows of the patient's table in the order perm, input columns only.
Reordered(perm) == [i \in 1..Len(patient_df) |-> InputColumns(patient_df[perm[i]])]

\* C21: for a fixed multiset of events of one patient, the line of every
\* event and the line summaries are the same for every order of the rows in
\* the input table, so for every order of the rows that share a date.
SameDayDeterminism ==
    pc = "done" =>
        \A perm \in Permutations(1..Len(patient_df)) :
            LET other == AnnotatePatient(Reordered(perm), hashseed)
            IN  /\ \A i \in 1..Len(patient_df) :
                      RowsWith(other, InputColumns(patient_df[i]),
                               patient_df[i].line_of_therapy)
                        = RowsWith(patient_df, InputColumns(patient_df[i]),
                                   patient_df[i].line_of_therapy)
                /\ create_lot_summary(other, drug_interchangeability, hashseed)
                      = summary_output

\* Row k is annotated, is not the first, and has the date of the row
\* processed before it.
SameDateAsPrev(k) ==
    /\ k \in Annotated
    /\ k > 1
    /\ patient_df[k].administratedate = patient_df[k - 1].administratedate

\* C22: every event that is not the first and has the date of the event
\* processed before it gets "Same Day Administration", stays in the line and
\* has its drug added to the regimen, whatever its drug and category; so all
\* events of one date are in one line.
SameDateNoOp ==
    /\ \A k \in Annotated :
          SameDateAsPrev(k) =>
              /\ patient_df[k].regimen_status = "Same Day Administration"
              /\ patient_df[k].line_of_therapy = patient_df[k - 1].line_of_therapy
              /\ SplitRegimen(patient_df[k].regimen)
                    = RegimenBefore(k) \cup {patient_df[k].drugname}
    /\ \A j, k \in Annotated :
          patient_df[j].administratedate = patient_df[k].administratedate
              => patient_df[j].line_of_therapy = patient_df[k].line_of_therapy
    /\ \A k \in Annotated :
          patient_df[k].regimen_status = "Same Day Administration" => SameDateAsPrev(k)

\* A same-date event of a biologic that is new to the regimen, long after
\* the initial window of its line, and a same-date event of a chemotherapy
\* drug that is in the regimen.
SameDateSeen ==
    /\ \E k \in Annotated :
          /\ SameDateAsPrev(k)
          /\ patient_df[k].drugcategory = "biologics"
          /\ patient_df[k].drugname \notin RegimenBefore(k)
          /\ ~patient_df[k].in_initial_window
          /\ patient_df[k].days_from_first_line > 90
    /\ \E k \in Annotated :
          /\ SameDateAsPrev(k)
          /\ patient_df[k].drugcategory = "chemotherapy"
          /\ patient_df[k].drugname \in RegimenBefore(k)

\* The rows of df with date d, in the order of df.
DateGroup(df, d) == SelectSeq(df, LAMBDA r : r.administratedate = d)

\* The drug names, in lower case, of the date group of df that precedes the
\* group of date d; empty for the first group.
PrecedingDrugs(df, d) ==
    LET earlier == {r.administratedate : r \in Range(df)} \cap 0..(d - 1)
    IN  IF earlier = {} THEN {}
        ELSE {Lower(r.drugname) : r \in Range(DateGroup(df, Largest(earlier)))}

\* What custom_sort_same_date owes for the date-sorted table inp it is
\* called with and the table out it returns.
SorterContract(inp, out) ==
    /\ Len(out) = Len(inp)
    /\ \A e \in Range(inp) \cup Range(out) :
          Cardinality({i \in 1..Len(out) : out[i] = e})
            = Cardinality({i \in 1..Len(inp) : inp[i] = e})
    /\ \A i \in 1..(Len(out) - 1) : out[i].administratedate <= out[i + 1].administratedate
    /\ \A d \in {r.administratedate : r \in Range(inp)} :
          LET group == DateGroup(inp, d)
              sorted == DateGroup(out, d)
              prev == PrecedingDrugs(inp, d)
              absent(r) == Lower(r.drugname) \notin prev
              present(r) == Lower(r.drugname) \in prev
          IN  IF prev = {} \/ Len(group) = 1 THEN sorted = group
              ELSE /\ \A i, j \in 1..Len(sorted) :
                         present(sorted[i]) /\ absent(sorted[j]) => j < i
                   /\ SelectSeq(sorted, absent) = SelectSeq(group, absent)
                   /\ SelectSeq(sorted, present) = SelectSeq(group, present)

\* The date-sorted tables that the input orders of the patient's rows give.
DateSortedInputs ==
    {sort_values(Reordered(perm)) : perm \in Permutations(1..Len(patient_df))}

\* The patient's table is sorted and no row of it is processed yet.
PatientSorted == pc = "lot" /\ idx = 0

\* C23: for every order the patient's rows can have in the input,
\* custom_sort_same_date returns a permutation of the date-sorted table with
\* non-decreasing dates; in every date group of several rows that has a
\* preceding group the rows whose drug is absent from the preceding group
\* come before the rows whose drug is in it, the input order is kept inside
\* each of the two sub-groups, and the first group and the groups of one row
\* are unchanged.  Names are compared in lower case.
SorterMeetsContract ==
    PatientSorted =>
        \A inp \in DateSortedInputs : SorterContract(inp, custom_sort_same_date(inp))

\* The sorter moved a row: a date group of three rows with a row whose drug
\* is in the preceding group under another letter case and two rows whose
\* drugs are not, which came behind that row in some input order.
SorterMovedRows ==
    /\ PatientSorted
    /\ Len(patient_df) = 4
    /\ patient_df[2].administratedate = patient_df[4].administratedate
    /\ patient_df[1].administratedate < patient_df[2].administratedate
    /\ Lower(patient_df[2].drugname) # Lower(patient_df[1].drugname)
    /\ Lower(patient_df[3].drugname) # Lower(patient_df[1].drugname)
    /\ patient_df[2].drugname # patient_df[3].drugname
    /\ Lower(patient_df[4].drugname) = Lower(patient_df[1].drugname)
    /\ patient_df[4].drugname # patient_df[1].drugname
    /\ \E inp \in DateSortedInputs :
          /\ inp[2] = InputColumns(patient_df[4])
          /\ custom_sort_same_date(inp) = MapSeq(InputColumns, patient_df)

\* The start of the line as row k found it, and the 28-day window of that
\* line.
LineStartBefore(k) == patient_df[k - 1].line_start_date[1]

DaysSinceLineStart(k) == patient_df[k].administratedate - LineStartBefore(k)

InWindowBefore(k) == patient_df[k].administratedate <= LineStartBefore(k) + 28

\* The biologic and targeted agents of the line as row k found it.
LineAgentsBefore(k) ==
    {patient_df[j].drugname : j \in
        {i \in 1..(k - 1) :
            /\ patient_df[i].line_of_therapy = patient_df[k - 1].line_of_therapy
            /\ patient_df[i].drugcategory \in {"biologics", "targeted"}}}

\* Row k comes on a new date within a treatment gap of row k - 1 with a drug
\* that is not in the regimen.
NewDrug(k) ==
    /\ k \in Annotated
    /\ k > 1
    /\ DaysSincePrev(k) > 0
    /\ DaysSincePrev(k) <= gap_period_options.gap_treatment_restart
    /\ patient_df[k].drugname \notin RegimenBefore(k)

NewBiologic(k) == NewDrug(k) /\ patient_df[k].drugcategory \in {"biologics", "targeted"}

\* C24: a new biologic or targeted drug that comes outside the 28-day window
\* as the third or a later distinct agent of the line starts a new line with
\* "New Line (Third Biologic/Targeted Agent Added)"; inside the window a new
\* biologic or targeted drug stays in the line with "New Biologic Addition
\* (Initial Window)", however many agents the line has.
ThirdAgentRule ==
    \A k \in Annotated :
        NewBiologic(k) =>
            IF InWindowBefore(k)
            THEN /\ patient_df[k].regimen_status = "New Biologic Addition (Initial Window)"
                 /\ patient_df[k].line_of_therapy = patient_df[k - 1].line_of_therapy
            ELSE Cardinality(LineAgentsBefore(k) \cup {patient_df[k].drugname}) >= 3 =>
                 /\ patient_df[k].regimen_status
                       = "New Line (Third Biologic/Targeted Agent Added)"
                 /\ patient_df[k].line_of_therapy = patient_df[k - 1].line_of_therapy + 1

\* A third agent added inside the window and a later one that opened a line
\* past the window.
ThirdAgentSeen ==
    /\ \E k \in Annotated :
          /\ NewBiologic(k)
          /\ InWindowBefore(k)
          /\ Cardinality(LineAgentsBefore(k)) = 2
    /\ \E k \in Annotated :
          /\ NewBiologic(k)
          /\ ~InWindowBefore(k)
          /\ Cardinality(LineAgentsBefore(k)) >= 2
          /\ patient_df[k].line_of_therapy = 2

\* Row k adds a first or second biologic or targeted agent to its line
\* outside the 28-day window.
NewAgentOutsideWindow(k) ==
    /\ NewBiologic(k)
    /\ ~InWindowBefore(k)
    /\ Cardinality(LineAgentsBefore(k) \cup {patient_df[k].drugname}) <= 2

\* Row k opened a line with status opened if over is true, and stayed in
\* the line with status within if not.
DecidedBy(k, over, opened, within) ==
    IF over
    THEN /\ patient_df[k].regimen_status = opened
         /\ patient_df[k].line_of_therapy = patient_df[k - 1].line_of_therapy + 1
    ELSE /\ patient_df[k].regimen_status = within
         /\ patient_df[k].line_of_therapy = patient_df[k - 1].line_of_therapy

\* C25: a new first or second biologic or targeted agent outside the initial
\* window starts a new line iff days_since_line_start is strictly greater
\* than after_initial_period for an anti-VEGF drug, than bio_dis1_period for
\* an anti-EGFR or other targeted drug; otherwise it stays in the line with
\* the "(Within Window)" status of its subclass.
SubclassThresholds ==
    \A k \in Annotated :
        NewAgentOutsideWindow(k) =>
            LET drug == patient_df[k].drugname
                days == DaysSinceLineStart(k)
            IN  /\ drug \in {"bevacizumab", "aflibercept", "ramucirumab"} =>
                      DecidedBy(k, days > new_biologic_agent_options.after_initial_period,
                                "New Line (Anti-VEGF Addition)",
                                "Anti-VEGF Addition (Within Window)")
                /\ drug \in {"cetuximab", "panitumumab"} =>
                      DecidedBy(k, days > new_biologic_agent_options.bio_dis1_period,
                                "New Line (EGFR Addition/Switch)",
                                "EGFR Addition (Within Window)")
                /\ drug \in {"regorafenib", "encorafenib"} =>
                      DecidedBy(k, days > new_biologic_agent_options.bio_dis1_period,
                                "New Line (Other Targeted Addition)",
                                "Other Targeted Addition (Within Window)")

\* An anti-VEGF agent accepted on the last day of after_initial_period and a
\* second agent that opened a line on the day after bio_dis1_period.
ThresholdsSeen ==
    /\ \E k \in Annotated :
          /\ NewAgentOutsideWindow(k)
          /\ patient_df[k].drugname = "bevacizumab"
          /\ DaysSinceLineStart(k) = new_biologic_agent_options.after_initial_period
    /\ \E k \in Annotated :
          /\ NewAgentOutsideWindow(k)
          /\ patient_df[k].drugname \in {"cetuximab", "regorafenib"}
          /\ DaysSinceLineStart(k) = new_biologic_agent_options.bio_dis1_period + 1
          /\ Cardinality(LineAgentsBefore(k)) = 1

\* The fluoropyrimidines and the chemotherapy drugs of the taxonomy.
Fluoropyrimidines == {"5-fluorouracil", "capecitabine"}

TaxonomyChemotherapy == Fluoropyrimidines \cup {"oxaliplatin", "cisplatin", "irinotecan"}

NewChemotherapy(k) == NewDrug(k) /\ patient_df[k].drugcategory = "chemotherapy"

\* Row k brings a fluoropyrimidine to a regimen that holds another one.
FluoropyrimidineSwap(k) ==
    /\ NewChemotherapy(k)
    /\ Lower(patient_df[k].drugname) \in Fluoropyrimidines
    /\ \E d \in RegimenBefore(k) : Lower(d) \in Fluoropyrimidines

\* The chemotherapy events of the patient after the date of row k and at
\* most 28 days later.
ChemotherapyAhead(k) ==
    {j \in 1..Len(patient_df) :
        /\ patient_df[j].administratedate > patient_df[k].administratedate
        /\ patient_df[j].administratedate <= patient_df[k].administratedate + 28
        /\ patient_df[j].drugcategory = "chemotherapy"}

\* A chemotherapy drug of the regimen comes again among those events.
BackboneAhead(k) ==
    \E j \in ChemotherapyAhead(k) :
        patient_df[j].drugname \in RegimenBefore(k) \cap TaxonomyChemotherapy

SwapSeen(inside, ahead, kept) ==
    \E k \in Annotated :
        /\ FluoropyrimidineSwap(k)
        /\ InWindowBefore(k) = inside
        /\ (ChemotherapyAhead(k) # {}) = ahead
        /\ (patient_df[k].regimen_status = "Fluoropyrimidine Switch") = kept
        /\ ~inside => DaysSinceLineStart(k) > new_chemo_agent_options.flu_dis_period

ValidatorPermitsAll ==
    /\ \A new_drug \in UniverseDrugs :
          can_add_new_chemotherapy(Range(current_regimen_drugs), new_drug,
                                   drug_interchangeability)
    /\ \A k \in 1..Len(patient_df) :
          patient_df[k].regimen_status # "New Line (Invalid Chemo Addition)"

\* Row k went through the validator: a new chemotherapy drug that is not a
\* fluoropyrimidine swap, outside the initial window.
Validated(k) == NewChemotherapy(k) /\ ~FluoropyrimidineSwap(k) /\ ~InWindowBefore(k)

\* The validator was asked about a topoisomerase inhibitor for a regimen
\* that holds oxaliplatin, and about a fluoropyrimidine.
ValidatorAsked ==
    /\ \E k \in Annotated :
          /\ Validated(k)
          /\ patient_df[k].drugname = "irinotecan"
          /\ "oxaliplatin" \in RegimenBefore(k)
    /\ \E k \in Annotated :
          /\ Validated(k)
          /\ patient_df[k].drugname = "5-fluorouracil"

\* The regimen row k found is, leucovorin left out, a single platinum
\* agent, a single topoisomerase inhibitor, or one of each.
BackboneRegimen(k) ==
    LET agents == {Lower(d) : d \in RegimenBefore(k)} \ {"leucovorin"}
        platinum == agents \cap {"oxaliplatin", "cisplatin"}
        topoisomerase == agents \cap {"irinotecan"}
    IN  /\ agents = platinum \cup topoisomerase
        /\ Cardinality(platinum) <= 1
        /\ Cardinality(topoisomerase) <= 1
        /\ agents # {}
        /\ Cardinality({d \in RegimenBefore(k) : Lower(d) # "leucovorin"})
              = Cardinality(agents)

\* Row k brings a fluoropyrimidine to a backbone regimen outside the initial
\* window.
FluoropyrimidineToBackbone(k) ==
    /\ NewChemotherapy(k)
    /\ ~InWindowBefore(k)
    /\ Lower(patient_df[k].drugname) \in Fluoropyrimidines
    /\ BackboneRegimen(k)

\* C28: outside the initial window and without a treatment gap, a new
\* fluoropyrimidine added to a regimen that, leucovorin left out, is a single
\* platinum agent, a single topoisomerase inhibitor or one platinum agent with
\* one topoisomerase inhibitor stays in the line with "New Chemo Addition
\* (Fluoropyrimidine to Backbone)", whatever days_since_line_start is.
BackboneException ==
    \A k \in Annotated :
        FluoropyrimidineToBackbone(k) =>
            /\ patient_df[k].regimen_status
                  = "New Chemo Addition (Fluoropyrimidine to Backbone)"
            /\ patient_df[k].line_of_therapy = patient_df[k - 1].line_of_therapy

\* A fluoropyrimidine added past flu_dis_period to oxaliplatin with
\* irinotecan and leucovorin.
BackboneSeen ==
    \E k \in Annotated :
        /\ FluoropyrimidineToBackbone(k)
        /\ DaysSinceLineStart(k) > new_chemo_agent_options.flu_dis_period
        /\ RegimenBefore(k) = {"oxaliplatin", "irinotecan", "leucovorin"}

\* Row k brings a new chemotherapy drug that is neither a fluoropyrimidine
\* swap nor a fluoropyrimidine for a backbone.
OrdinaryChemotherapy(k) ==
    /\ NewChemotherapy(k)
    /\ ~FluoropyrimidineSwap(k)
    /\ ~FluoropyrimidineToBackbone(k)

\* C29: a new chemotherapy drug in the ordinary case stays in the line with
\* "New Chemo Addition (Initial Window)" inside the 28-day window; outside it
\* opens a line with "New Line (New Chemo Addition)" iff days_since_line_start
\* is strictly greater than flu_dis_period and stays with "New Chemo Addition
\* (Within Window)" if not, for a fluoropyrimidine as for any other agent.
OrdinaryChemotherapyRule ==
    \A k \in Annotated :
        OrdinaryChemotherapy(k) =>
            IF InWindowBefore(k)
            THEN /\ patient_df[k].regimen_status = "New Chemo Addition (Initial Window)"
                 /\ patient_df[k].line_of_therapy = patient_df[k - 1].line_of_therapy
            ELSE DecidedBy(k, DaysSinceLineStart(k) > new_chemo_agent_options.flu_dis_period,
                           "New Line (New Chemo Addition)",
                           "New Chemo Addition (Within Window)")

\* A platinum agent accepted on the last day of flu_dis_period and a
\* fluoropyrimidine that opened a line on the day after.
OrdinaryChemotherapySeen ==
    /\ \E k \in Annotated :
          /\ OrdinaryChemotherapy(k)
          /\ patient_df[k].drugname = "oxaliplatin"
          /\ DaysSinceLineStart(k) = new_chemo_agent_options.flu_dis_period
    /\ \E k \in Annotated :
          /\ OrdinaryChemotherapy(k)
          /\ patient_df[k].drugname = "5-fluorouracil"
          /\ DaysSinceLineStart(k) = new_chemo_agent_options.flu_dis_period + 1

\* The drug set holds both components of LONSURF, or its literal name.
HasLonsurf(drugs) ==
    LET names == {Lower(d) : d \in drugs}
    IN  {"trifluridine", "tipiracil"} \subseteq names \/ "lonsurf" \in names

\* The labels whose base regimen is "LONSURF": the base alone, or the base
\* with the targeted agents of the set behind it, in either order.
LonsurfLabels ==
    {"LONSURF", "LONSURF + bevacizumab", "LONSURF + regorafenib",
     "LONSURF + bevacizumab + regorafenib", "LONSURF + regorafenib + bevacizumab"}

\* C30: for every drug set that holds trifluridine and tipiracil, or the
\* literal lonsurf, identify_standard_regimen returns a label whose base
\* regimen is "LONSURF", whatever other drugs the set holds: the
\* regimen_type of every annotated event and of every summarized line with
\* such a drug set is a LONSURF label.
LonsurfPriority ==
    /\ \A k \in Annotated :
          HasLonsurf(SplitRegimen(patient_df[k].regimen))
              => patient_df[k].regimen_type \in LonsurfLabels
    /\ \A n \in 1..Len(summary_output) :
          HasLonsurf(SplitRegimen(summary_output[n].drugs))
              => summary_output[n].regimen_type \in LonsurfLabels

\* The configured other-targeted agents of the drug set (lower case).
OtherTargetedIn(drugs) ==
    {Lower(d) : d \in drugs} \cap Range(drug_interchangeability.CRC.other_targeted)

\* The labels made of exactly the capitalized names of the agents of S,
\* joined by " + " in any order.
JoinedNames(S) ==
    {Join(" + ", MapSeq(Capitalize, order)) :
        order \in {o \in [1..Cardinality(S) -> S] : Range(o) = S}}

\* C31: for every drug set without LONSURF that holds at least one
\* configured other-targeted agent, the label of identify_standard_regimen
\* consists of exactly the capitalized names of the other-targeted agents
\* present (no backbone name, no anti-VEGF or anti-EGFR agent): so it is for
\* the regimen_type of every annotated event and of every summarized line.
OtherTargetedShortCircuit ==
    /\ \A k \in Annotated :
          LET drugs == SplitRegimen(patient_df[k].regimen)
          IN  ~HasLonsurf(drugs) /\ OtherTargetedIn(drugs) # {}
                  => patient_df[k].regimen_type \in JoinedNames(OtherTargetedIn(drugs))
    /\ \A n \in 1..Len(summary_output) :
          LET drugs == SplitRegimen(summary_output[n].drugs)
          IN  ~HasLonsurf(drugs) /\ OtherTargetedIn(drugs) # {}
                  => summary_output[n].regimen_type \in JoinedNames(OtherTargetedIn(drugs))

\* The anti-VEGF and anti-EGFR agents of the drug set (lower case).
AntiAgentsIn(drugs) ==
    {Lower(d) : d \in drugs}
        \cap (Range(drug_interchangeability.CRC.anti_vegf)
              \cup Range(drug_interchangeability.CRC.anti_egfr))

\* The labels with base regimen base for the drug set: the base alone when
\* the set holds no anti-VEGF or anti-EGFR agent, else the base with those
\* agents behind it in any order.
LabelsWithBase(base, drugs) ==
    LET agents == AntiAgentsIn(drugs)
    IN  IF agents = {} THEN {base}
        ELSE {base \o " + " \o Join(" + ", order) :
                 order \in {o \in [1..Cardinality(agents) -> agents] : Range(o) = agents}}

\* The drug set holds both a 5-FU-family and a capecitabine-family drug,
\* and neither LONSURF nor an other-targeted agent.
BothFluoropyrimidines(drugs) ==
    /\ Fluoropyrimidines \subseteq {Lower(d) : d \in drugs}
    /\ ~HasLonsurf(drugs)
    /\ OtherTargetedIn(drugs) = {}

\* The name of the family for the partners of the drug set: by oxaliplatin
\* and irinotecan, and for the 5-FU family by leucovorin.
FamilyName(capecitabine_family, drugs) ==
    LET names == {Lower(d) : d \in drugs}
        ox  == "oxaliplatin" \in names
        iri == "irinotecan" \in names
        lv  == "leucovorin" \in names
    IN  IF capecitabine_family
        THEN (IF ox /\ iri THEN "CAPOXIRI" ELSE IF ox THEN "CAPOX"
              ELSE IF iri THEN "CAPIRI" ELSE "Capecitabine")
        ELSE (IF ox /\ iri THEN "FOLFOXIRI" ELSE IF ox THEN "FOLFOX"
              ELSE IF iri THEN "FOLFIRI" ELSE IF lv THEN "5-FU/LV" ELSE "5-FU")

LineNamed(fu_count, cape_count, label) ==
    \E n \in 1..Len(summary_output) :
        /\ BothFluoropyrimidines(SplitRegimen(summary_output[n].drugs))
        /\ CountGet(summary_output[n].line_admin_counts, "5-fluorouracil") = fu_count
        /\ CountGet(summary_output[n].line_admin_counts, "capecitabine") = cape_count
        /\ summary_output[n].regimen_type = label

Unidentified(drugs) ==
    /\ {Lower(d) : d \in drugs} \cap Fluoropyrimidines = {}
    /\ ~HasLonsurf(drugs)
    /\ OtherTargetedIn(drugs) = {}
    /\ AntiAgentsIn(drugs) = {}

InitialWindowCodes ==
    {"New Biologic Addition (Initial Window)", "New Chemo Addition (Initial Window)"}

EstablishedCodes ==
    WithinWindowCodes
    \cup {"New Line (Third Biologic/Targeted Agent Added)", "New Line (Anti-VEGF Addition)",
          "New Line (EGFR Addition/Switch)", "New Line (Other Targeted Addition)",
          "New Line (Invalid Chemo Addition)", "New Line (New Chemo Addition)",
          "New Chemo Addition (Fluoropyrimidine to Backbone)"}

\* Days between row k and the start of the line it is annotated with.
DaysInLine(k) == patient_df[k].administratedate - patient_df[k].line_start_date[1]

\* Row k is the first row of its line.
FirstOfLine(k) ==
    /\ k \in Annotated
    /\ \A j \in 1..(k - 1) : patient_df[j].line_of_therapy # patient_df[k].line_of_therapy

\* C34: on every annotated event in_initial_window is true iff the event is
\* at most 28 days after its line_start_date (day 28 included); the first
\* event of every line is in the initial window; and an event is decided
\* with the window of the line that was current before it: the statuses
\* of the initial window are given inside that window, the rule-gated
\* statuses outside it.
InitialWindowState ==
    \A k \in Annotated :
        /\ patient_df[k].in_initial_window <=> DaysInLine(k) <= 28
        /\ FirstOfLine(k) => patient_df[k].in_initial_window
        /\ k > 1 =>
              /\ patient_df[k].regimen_status \in InitialWindowCodes => InWindowBefore(k)
              /\ patient_df[k].regimen_status \in EstablishedCodes => ~InWindowBefore(k)

\* An event on day 28 of its line is in the window, one on day 29 is not,
\* and an event decided outside the window of its predecessor's line starts
\* a new line and is in the window of that line.
WindowBoundarySeen ==
    /\ \E k \in Annotated : k > 1 /\ DaysInLine(k) = 28 /\ patient_df[k].in_initial_window
    /\ \E k \in Annotated : DaysInLine(k) = 29 /\ ~patient_df[k].in_initial_window
    /\ \E k \in Annotated :
          /\ StartsLine(k)
          /\ ~InWindowBefore(k)
          /\ patient_df[k].regimen_status \in EstablishedCodes
          /\ patient_df[k].in_initial_window

\* The first row of the line of row k.
FirstRowOfLine(k) ==
    Smallest({j \in 1..k : patient_df[j].line_of_therapy = patient_df[k].line_of_therapy})

\* C35: all annotated events of a line carry the same line_start_date, the
\* date of the first event of the line; the line_end_date of an event is
\* its own date and its days_from_first_line is its date minus its
\* line_start_date.
LineDatesOfEvents ==
    \A k \in Annotated :
        /\ patient_df[k].line_start_date
              = Some(patient_df[FirstRowOfLine(k)].administratedate)
        /\ patient_df[k].line_end_date = Some(patient_df[k].administratedate)
        /\ patient_df[k].days_from_first_line = DaysInLine(k)

\* A second line has an event on a later date than its first event.
LaterEventInSecondLine ==
    \E k \in Annotated :
        /\ patient_df[k].line_of_therapy = 2
        /\ DaysInLine(k) > 0
        /\ patient_df[k].days_from_first_line = DaysInLine(k)
        /\ patient_df[FirstRowOfLine(k)].administratedate > patient_df[1].administratedate

\* C36: the line number increases at an event exactly when the event's
\* regimen_status is a "New Line (...)" status: the first event has line 1
\* and status "Initial Regimen"; a later event either has a "New Line (...)"
\* status and the next line number, or has the line number of the event
\* before it and a status that is neither "New Line (...)" nor "Initial
\* Regimen".
LineIncreasesAtNewLineStatus ==
    \A k \in Annotated :
        IF k = 1
        THEN /\ patient_df[k].line_of_therapy = 1
             /\ patient_df[k].regimen_status = "Initial Regimen"
        ELSE \/ /\ patient_df[k].regimen_status \in NewLineCodes
                /\ patient_df[k].line_of_therapy = patient_df[k - 1].line_of_therapy + 1
             \/ /\ patient_df[k].regimen_status \notin NewLineCodes \cup {"Initial Regimen"}
                /\ patient_df[k].line_of_therapy = patient_df[k - 1].line_of_therapy

\* A table with an event that stays in line 1, an event that opens line 2
\* and an event that stays in line 2.
LineOpenedAndContinued ==
    /\ \E k \in Annotated :
          k > 1 /\ patient_df[k].line_of_therapy = 1
    /\ \E k \in Annotated :
          /\ StartsLine(k)
          /\ patient_df[k].regimen_status \in NewLineCodes
          /\ k < idx
          /\ patient_df[k + 1].line_of_therapy = patient_df[k].line_of_therapy
          /\ patient_df[k + 1].regimen_status \notin NewLineCodes

\* The dates on which the patient has an administration.
AdministrationDates == {r.administratedate : r \in Range(patient_df)}

\* C37: the date ranges of a patient's lines are ordered and disjoint: an
\* event that opens a line is on a later date than every event before it,
\* the summary's line_end_date of line n is strictly earlier than the
\* line_start_date of line n + 1, and there are never more lines than
\* distinct administration dates.
LinesOrderedAndDisjoint ==
    /\ \A k \in Annotated :
          StartsLine(k) =>
              \A j \in 1..(k - 1) :
                  patient_df[j].administratedate < patient_df[k].administratedate
    /\ \A n \in 1..(Len(summary_output) - 1) :
          summary_output[n].line_end_date[1] < summary_output[n + 1].line_start_date[1]
    /\ \A k \in Annotated :
          patient_df[k].line_of_therapy
              <= Cardinality({patient_df[j].administratedate : j \in 1..k})
    /\ Len(summary_output) <= Cardinality(AdministrationDates)

\* A patient with four events on two dates is summarized in two lines.
AsManyLinesAsDates ==
    /\ pc = "done"
    /\ Len(summary_output) = 2
    /\ Cardinality(AdministrationDates) = 2
    /\ Len(patient_df) = 4
    /\ summary_output[1].line_end_date[1] < summary_output[2].line_start_date[1]

\* Summary row n is the row of a line of the patient in patient_df.
SummaryOfPatient(n) ==
    /\ summary_output[n].patientid \in {r.patientid : r \in Range(patient_df)}
    /\ RowsOfLine(summary_output[n].line_of_therapy) # {}

\* The last annotated event of the line of summary row n.
LastEventOfLine(n) == patient_df[Largest(RowsOfLine(summary_output[n].line_of_therapy))]

\* C38: for every line, the summary's drugs are the regimen annotated on
\* the line's last event, and the summary's regimen_type is the
\* regimen_type annotated on that event unless the line holds both a
\* 5-FU-family and a capecitabine-family drug.
SummaryAgreesWithLastEvent ==
    \A n \in 1..Len(summary_output) :
        SummaryOfPatient(n) =>
            /\ summary_output[n].drugs = LastEventOfLine(n).regimen
            /\ ~(Fluoropyrimidines \subseteq {Lower(d) : d \in SplitRegimen(summary_output[n].drugs)})
                  => summary_output[n].regimen_type = LastEventOfLine(n).regimen_type

OnlyIncomingAhead(k) ==
    /\ ChemotherapyAhead(k) # {}
    /\ \A j \in ChemotherapyAhead(k) : patient_df[j].drugname = patient_df[k].drugname

\* C40: a fluoropyrimidine switch whose 28-day lookahead holds chemotherapy
\* events of the incoming fluoropyrimidine only opens a new line with the
\* status "New Line (Fluoropyrimidine Replacement)": the incoming drug is a
\* future chemotherapy drug but no drug of the regimen.
IncomingAloneIsReplacement ==
    \A k \in Annotated :
        FluoropyrimidineSwap(k) /\ OnlyIncomingAhead(k) =>
            /\ patient_df[k].regimen_status = "New Line (Fluoropyrimidine Replacement)"
            /\ patient_df[k].line_of_therapy = patient_df[k - 1].line_of_therapy + 1
            /\ patient_df[k].regimen = patient_df[k].drugname

\* 5-fluorouracil with oxaliplatin is followed by capecitabine, capecitabine
\* alone is given again within 28 days, and the first capecitabine opened a
\* line.
ReplacementByIncomingSeen ==
    \E k \in Annotated :
        /\ FluoropyrimidineSwap(k)
        /\ OnlyIncomingAhead(k)
        /\ RegimenBefore(k) = {"5-fluorouracil", "oxaliplatin"}
        /\ patient_df[k].drugname = "capecitabine"
        /\ StartsLine(k)

====
